---- MODULE Spec2Model ----
(***************************************************************************)
(* Job orchestration and completion polling of czdt-iss-ingest-job.        *)
(*                                                                         *)
(* Spec       : the completion pollers, one remote job, wall-clock time.   *)
(*              wait_for_completion (pipeline_generic / pipeline_netcdf),  *)
(*              wait_for_parent_completion as main of catalog_job wraps    *)
(*              it, and AsyncJob.get_job_status.                           *)
(* SpecHandle : one AsyncJob handle refreshed by its caller.               *)
(* SpecFlow   : one run of main of pipeline_generic, pipeline_daac,        *)
(*              pipeline_netcdf or stac_cat: the stage functions, their    *)
(*              submissions, manifest uploads, waits and output            *)
(*              resolution, up to the process exit.                        *)
(* SpecArgs   : argument validation, input-type detection and step         *)
(*              selection of pipeline_generic and localized_pipeline.      *)
(* SpecResolve: get_dps_output over a list of job handles.                 *)
(* SpecParse  : parse_s3_path of common_utils, pipeline_daac and           *)
(*              pipeline_netcdf on the two forms of S3 URL.                *)
(* SpecError  : job_error_message over the shapes of error_details.        *)
(* SpecCatalog: catalog_job from the parent's catalog to the process exit. *)
(* SpecNotify : the requests of a run to the notification service.         *)
(* SpecStage  : main of stage_from_ftp and stage_from_daac.                *)
(* SpecHref   : the asset hrefs process_catalog_items rewrites.            *)
(* SpecFlowLive, SpecAsync: SpecFlow and the AsyncJob poller of Spec with  *)
(* the fairness of their schedulers, for the liveness properties.          *)
(***************************************************************************)
EXTENDS Integers, Sequences, FiniteSets, TLC

VARIABLES
    variant,      \* which poller runs: "generic", "catalog" or "async"
    remote,       \* the status the remote executor reported at the last refresh
    now,          \* wall clock, seconds since the poller was entered
    ppc,          \* poller position: "call", "sleep", "osleep", "returned", "raised"
    status,       \* the handle's cached status (job.status / AsyncJob.status)
    retries,      \* values drawn so far from the (inner) expo generator
    istart,       \* start time of the (inner) retry loop
    oretries,     \* catalog_job: values drawn from the outer expo generator
    oelapsed,     \* catalog_job: elapsed read at the top of the outer loop
    wait,         \* the sleep interval chosen last, -1 before the first
    exc,          \* exception that left the poller, "none" otherwise
    exitCode,     \* process exit code chosen by main, -1 while running
    maxBackoff,   \* catalog_job --max-backoff
    maxWaitTime,  \* catalog_job --max-wait-time
    polls,        \* status refreshes performed
    nsleeps,      \* sleep intervals chosen
    evt,          \* AsyncJob.status_changed flag
    wpc,          \* AsyncJob.wait_for_status_change task: "waiting" or "done"
    failObserved, \* history: a refresh returned Failed, Deleted or Revoked
    afterFail,    \* history: a refresh or a sleep happened after that
    decision,     \* history: what the poller did with the last observation
    timedOut,     \* history: the poller gave up on max_time
    scen,         \* history: length of the matched prefix of Scenario, -1 if broken
    evtSets,      \* history: calls of status_changed.set()
    fresh,        \* history: a refresh happened since the remote status last changed
    \* ---- the pipeline run (SpecFlow) ----
    pipeline,     \* entry point: "generic", "daac" or "netcdf"
    inputType,    \* detected input type
    enableConcat, \* --enable-concat
    fpc,          \* position of main
    jobs,         \* every handle submitJob returned, in submission order
    curStage,     \* the stage whose jobs are being awaited
    waitList,     \* handles still to be awaited one after the other
    awaited,      \* AsyncJob pollers still running under asyncio.gather
    stageOut,     \* the handles the current or last stage function returns
    zarrJob,      \* the handle main holds as zarr_job, 0 for None
    fexit,        \* exit status of the process, -1 while running
    cataloged,    \* the cataloging step was performed
    resolved,     \* handles that were passed to get_dps_output
    tifs,         \* the TIFF list the cataloging step resolved
    cogOutcome,   \* history: how the Zarr-to-COG stage ended
    failedSeen,   \* history: a job ended in a failure status or a wait failed
    uploaded,     \* manifest objects put to storage: [obj, n] with n store paths
    manifestRefs, \* the zarr_manifest objects named by submitted concat jobs
    ncFound,      \* NetCDF files the conversion stage found in the staging output, -1 before
    outputs,      \* output names passed to the submissions of fan-out stages
    \* ---- argument handling and the localized run (SpecArgs) ----
    entry,        \* entry point: "generic" or "localized"
    granule_id,   \* --granule-id, "" when absent
    collection_id, \* --collection-id, "" when absent
    input_s3,     \* --input-s3 as a sequence of characters, <<>> when absent
    steps_arg,    \* --steps: "all" or the names between the commas
    enable_concat, \* --enable-concat
    transformers_ok, \* the transformers directory holds the required files
    apc,          \* position of main
    input_type,   \* what detect_input_type returned, "None" for None
    enabled_steps, \* what get_enabled_steps returned, "None" for None
    current_output, \* localized_pipeline: a stage produced an output path
    ran,          \* the local stages and catalog submission run so far
    remoteCalls,  \* remote calls made so far
    aexit,        \* exit status of the process, -1 while running
    rimpl,        \* which get_dps_output runs: "common", "generic" or "daac"
    rjobs,        \* its jobs argument: what retrieve_result gives for each handle
    rext,         \* its file_ext argument
    rprefixes,    \* its prefixes_only argument
    rpc,          \* "idle", "loop", "returned" or "raised"
    ri,           \* index of the next job_output of the loop
    routput,      \* the output set, as the sequence of its distinct members
    pimpl,        \* which parse_s3_path runs: "common", "daac" or "netcdf"
    pform,        \* form of the URL: "canonical" or "hostname"
    pbucket,      \* the bucket the URL names
    pkey,         \* the key the URL names, as its segments between slashes
    s3pc,         \* "idle", "call", "returned" or "raised"
    presult,      \* the (bucket, key) pair returned
    eimpl,        \* which job_error_message runs
    error_details,\* job.error_details: None, free text, or the text of a JSON value
    response_code,\* job.response_code
    epc,          \* "idle", "call", "returned" or "raised"
    emessage,     \* the message returned, or the exception raised
    ccolls,       \* catalog_job: ids of the collections catalog.walk() yields, in order
    cargid,       \* catalog_job --collection-id
    cpc,          \* "idle", "fetch", "loop", "notify", "returned", "done" or "exited"
    ci,           \* index of the collection the loop is at
    coutcomes,    \* history: what the upsert of each walked collection did
    collections_ingested,\* ingest_catalog_to_stac: its counter
    failed_collections,\* ingest_catalog_to_stac: its failure list
    ogc_uris,     \* collections whose item URIs were collected
    asset_uris,   \* collections whose asset URIs were collected
    notifications,\* product-available requests sent, in order
    cnoteFailed,  \* history: a request to the notification service failed
    csuccess,     \* the "completed successfully" message was printed
    cexit,        \* exit status of catalog_job, -1 while running
    nimpl,        \* which cmss_logger / cmss_product_available the run uses
    npoints,      \* the notification calls of the run, in order
    ni,           \* index of the next notification call
    nposts,       \* history: what each request to the service did
    npc,          \* "idle", "running", "done" or "exited"
    nexit,        \* exit status of the run, -1 while running
    script,       \* "stage_from_ftp" or "stage_from_daac"
    sfiles,       \* number of files the search finds
    overwrite_existing,\* stage_from_ftp --overwrite-existing
    local_download_path, \* --local-download-path: "absent", "directory" or "file"
    sexisting,    \* files already present under their S3 key
    slocal,       \* files on the local disk
    downloaded_file_paths,\* main: downloaded_file_paths / downloaded_granule_path
    suploaded,    \* files uploaded by this run
    sraised,      \* exception raised inside the try of main, "" when none
    current_exception,\* sys.exc_info()[1] as the finally clause reads it
    spc,          \* "idle", "client", "download", "upload", "except", "finally" or "exited"
    sexit,        \* exit status of the script, -1 while running
    assets,       \* catalog_job: the asset hrefs of the catalog as the parent job wrote them
    hrefs,        \* the asset hrefs as process_catalog_items leaves them
    hi,           \* index of the next asset of the loop
    hpc           \* "idle", "loop" or "returned"

pollerVars == <<variant, remote, now, ppc, status, retries, istart, oretries,
                oelapsed, wait, exc, exitCode, maxBackoff, maxWaitTime,
                polls, nsleeps, evt, wpc, failObserved, afterFail, decision, timedOut,
                scen, evtSets, fresh>>

flowVars == <<pipeline, inputType, enableConcat, fpc, jobs, curStage, waitList,
              awaited, stageOut, zarrJob, fexit, cataloged, resolved, tifs,
              cogOutcome, failedSeen, uploaded, manifestRefs,
              ncFound, outputs>>

manifestVars == <<uploaded, manifestRefs>>

argVars == <<entry, granule_id, collection_id, input_s3, steps_arg, enable_concat,
             transformers_ok, apc, input_type, enabled_steps, current_output, ran,
             remoteCalls, aexit>>

resolveVars == <<rimpl, rjobs, rext, rprefixes, rpc, ri, routput>>

parseVars == <<pimpl, pform, pbucket, pkey, s3pc, presult>>

errorVars == <<eimpl, error_details, response_code, epc, emessage>>

catalogVars == <<ccolls, cargid, cpc, ci, coutcomes, collections_ingested, failed_collections, ogc_uris, asset_uris, notifications, cnoteFailed, csuccess, cexit>>

notifyVars == <<nimpl, npoints, ni, nposts, npc, nexit>>

stageVars == <<script, sfiles, overwrite_existing, local_download_path, sexisting, slocal, downloaded_file_paths, suploaded, sraised, current_exception, spc, sexit>>

hrefVars == <<assets, hrefs, hi, hpc>>

moreVars == <<parseVars, errorVars, catalogVars, notifyVars, stageVars, hrefVars>>

otherVars == <<argVars, resolveVars, moreVars>>

besidesHref == <<pollerVars, flowVars, argVars, resolveVars, parseVars, errorVars, catalogVars, notifyVars, stageVars>>

besidesStage == <<pollerVars, flowVars, argVars, resolveVars, parseVars, errorVars, catalogVars, notifyVars, hrefVars>>

besidesNotify == <<pollerVars, flowVars, argVars, resolveVars, parseVars, errorVars, catalogVars, stageVars, hrefVars>>

besidesCatalog == <<pollerVars, flowVars, argVars, resolveVars, parseVars, errorVars, notifyVars, stageVars, hrefVars>>

besidesError == <<pollerVars, flowVars, argVars, resolveVars, parseVars, catalogVars, notifyVars, stageVars, hrefVars>>

besidesParse == <<pollerVars, flowVars, argVars, resolveVars, errorVars, catalogVars, notifyVars, stageVars, hrefVars>>

vars == <<pollerVars, flowVars, otherVars>>

(***************************************************************************)
(* Bounds of the model.                                                    *)
(***************************************************************************)
MaxPolls == 7          \* status refreshes per run
LongCall == 172800     \* duration of a slow remote call, seconds
SmallBackoff == 16     \* a --max-backoff below the decorator's 64
SmallWaitTime == 3600  \* a --max-wait-time below the decorator's 172800
MaxFan == 2            \* objects one listing returns, hence the width of a fan-out
MaxSteps == 2          \* names in an explicit --steps list

(***************************************************************************)
(* Program constants.                                                      *)
(***************************************************************************)
DecoratorMaxValue == 64
DecoratorMaxTime == 172800
DefaultMaxBackoff == 64
DefaultMaxWaitTime == 172800
AsyncSleepSeconds == 10
ExitInvalidArgument == 6
ExitRuntimeError == 7
ExitGeneric == 1
ExitSuccess == 0
ExitNotImplemented == 8

(***************************************************************************)
(* Status values.  The executor reports capitalised words; the pollers     *)
(* compare job.status.lower().                                             *)
(***************************************************************************)
Statuses == {"Accepted", "Running", "Succeeded", "Failed", "Deleted", "Revoked",
             "Successful", "Dismissed"}

FailureTerminals == {"Failed", "Deleted", "Revoked"}
Terminals == {"Succeeded"} \cup FailureTerminals
NonTerminals == {"Accepted", "Running"}

Lower(s) ==
    CASE s = "Accepted"   -> "accepted"
      [] s = "Running"    -> "running"
      [] s = "Succeeded"  -> "succeeded"
      [] s = "Failed"     -> "failed"
      [] s = "Deleted"    -> "deleted"
      [] s = "Revoked"    -> "revoked"
      [] s = "Successful" -> "successful"
      [] s = "Dismissed"  -> "dismissed"
      [] OTHER            -> s

Min(a, b) == IF a < b THEN a ELSE b

(***************************************************************************)
(* The bodies of the polled functions: what one call does with the status  *)
(* it read.  "return" or the exception type it raises.                     *)
(***************************************************************************)
wait_for_completion(s) ==
    IF Lower(s) \in {"deleted", "accepted", "running"}
    THEN "RuntimeError"
    ELSE "return"

\* a wait that takes any status it does not know for the end of the parent
wait_for_parent_completion_unknown_returns(s) ==
    LET st == Lower(s) IN
    IF st \in {"failed", "deleted", "revoked"} THEN "ValueError"
    ELSE IF st \in {"accepted", "running", "queued"} THEN "RuntimeError"
    ELSE "return"

wait_for_parent_completion(s) ==
    LET st == Lower(s) IN
    IF st \in {"failed", "deleted", "revoked"} THEN "ValueError"
    ELSE IF st \in {"accepted", "running", "queued"} THEN "RuntimeError"
    ELSE IF st = "successful" THEN "return"
    ELSE "RuntimeError"

(***************************************************************************)
(* backoff.on_exception(backoff.expo, Exception, max_value, max_time):     *)
(* every Exception is retried; the n-th wait is min(2^n, max_value) with   *)
(* the library's default full jitter, random.uniform(0, value), and never  *)
(* longer than what is left of max_time.                                   *)
(***************************************************************************)
RECURSIVE Pow(_, _)
Pow(b, n) == IF n = 0 THEN 1 ELSE b * Pow(b, n - 1)

ExpoBase3(n, maxValue) == IF Pow(3, n) < maxValue THEN Pow(3, n) ELSE maxValue

Expo(n, maxValue) == IF Pow(2, n) < maxValue THEN Pow(2, n) ELSE maxValue

FullJitter(value) == {0, value}

NextWait(n, maxValue, elapsed, maxTime) ==
    {Min(s, maxTime - elapsed) : s \in FullJitter(Expo(n, maxValue))}

BackoffCatches(e) == e \in {"RuntimeError", "ValueError", "TransportError"}

(***************************************************************************)
(* main's except clauses.                                                  *)
(***************************************************************************)
GenericExit(e) ==
    IF e = "ValueError" THEN ExitInvalidArgument
    ELSE IF e = "RuntimeError" THEN ExitRuntimeError
    ELSE ExitGeneric

CatalogExit(e) == IF e = "ValueError" THEN ExitGeneric ELSE ExitGeneric

ExitOf(v, e) == IF v = "catalog" THEN CatalogExit(e) ELSE GenericExit(e)

(***************************************************************************)
(* Scenario C of the specification.                                        *)
(***************************************************************************)
Scenario == <<"Accepted", "Running", "Running", "Succeeded">>

ScenNext(s, transport) ==
    IF ~transport /\ scen >= 0 /\ scen < Len(Scenario) /\ polls = scen
       /\ s = Scenario[scen + 1]
    THEN scen + 1
    ELSE -1

CallDurations == {0, LongCall}

\* --max-backoff and --max-wait-time as given on the command line
CatalogArgs == {<<SmallBackoff, SmallWaitTime>>, <<DefaultMaxBackoff, DefaultMaxWaitTime>>}

(***************************************************************************)
(* The remote executor: a job that has ended keeps its status, any other   *)
(* job may report anything at the next refresh.                            *)
(***************************************************************************)
RemoteNext(r) == IF r \in Terminals \cup {"Successful"} THEN {r} ELSE Statuses

\* What one call of the target does: the status it read (or a transport failure).
Observe(s, transport) ==
    /\ polls' = polls + 1
    /\ remote' = IF transport THEN remote ELSE s
    /\ status' = IF transport THEN status ELSE s
    /\ failObserved' = (failObserved \/ (~transport /\ s \in FailureTerminals))
    /\ afterFail' = (afterFail \/ failObserved)
    /\ scen' = ScenNext(s, transport)

(***************************************************************************)
(* pipeline_generic.wait_for_completion under its decorator: one pass of   *)
(* the retry loop, up to the sleep.                                        *)
(***************************************************************************)
GenericAttempt ==
    /\ variant = "generic"
    /\ ppc = "call"
    /\ polls < MaxPolls
    /\ \E d \in CallDurations, transport \in BOOLEAN, s \in RemoteNext(remote) :
        LET elapsed == now - istart
            r == IF transport THEN "TransportError" ELSE wait_for_completion(s)
        IN
        /\ now' = now + d
        /\ Observe(s, transport)
        /\ IF ~BackoffCatches(r)
           THEN /\ ppc' = "returned"
                /\ decision' = "succeed"
                /\ UNCHANGED <<retries, nsleeps, wait, exc, exitCode, timedOut>>
           ELSE IF elapsed >= DecoratorMaxTime
           THEN /\ ppc' = "raised"
                /\ exc' = r
                /\ exitCode' = ExitOf(variant, r)
                /\ decision' = "fail"
                /\ timedOut' = TRUE
                /\ UNCHANGED <<retries, nsleeps, wait>>
           ELSE /\ \E w \in NextWait(retries, DecoratorMaxValue, elapsed,
                                     DecoratorMaxTime) : wait' = w
                /\ retries' = retries + 1
                /\ nsleeps' = nsleeps + 1
                /\ ppc' = "sleep"
                /\ decision' = IF transport THEN "retry_error" ELSE "continue"
                /\ UNCHANGED <<exc, exitCode, timedOut>>
    /\ UNCHANGED <<variant, istart, oretries, oelapsed, maxBackoff, maxWaitTime,
                   evt, wpc>>
    /\ UNCHANGED <<evtSets, fresh, flowVars, otherVars>>

(***************************************************************************)
(* catalog_job: main wraps the decorated wait_for_parent_completion in a   *)
(* second backoff.on_exception with --max-backoff and --max-wait-time.     *)
(* One pass of the inner loop; when the inner loop gives up, the outer     *)
(* handler runs in the same step.                                          *)
(***************************************************************************)
CatalogAttempt ==
    /\ variant = "catalog"
    /\ ppc = "call"
    /\ polls < MaxPolls
    /\ \E d \in CallDurations, transport \in BOOLEAN, s \in RemoteNext(remote) :
        LET elapsed == now - istart
            r == IF transport THEN "TransportError" ELSE wait_for_parent_completion(s)
        IN
        /\ now' = now + d
        /\ Observe(s, transport)
        /\ IF ~BackoffCatches(r)
           THEN /\ ppc' = "returned"
                /\ decision' = "succeed"
                /\ UNCHANGED <<retries, oretries, nsleeps, wait, exc, exitCode,
                               timedOut>>
           ELSE IF elapsed >= DecoratorMaxTime
           THEN \* the inner loop re-raises; the outer loop catches it
                IF oelapsed >= maxWaitTime
                THEN /\ ppc' = "raised"
                     /\ exc' = r
                     /\ exitCode' = ExitOf(variant, r)
                     /\ decision' = "fail"
                     /\ timedOut' = TRUE
                     /\ UNCHANGED <<retries, oretries, nsleeps, wait>>
                ELSE /\ \E w \in NextWait(oretries, maxBackoff, oelapsed,
                                          maxWaitTime) : wait' = w
                     /\ oretries' = oretries + 1
                     /\ nsleeps' = nsleeps + 1
                     /\ ppc' = "osleep"
                     /\ decision' = IF transport THEN "retry_error" ELSE "continue"
                     /\ UNCHANGED <<retries, exc, exitCode, timedOut>>
           ELSE /\ \E w \in NextWait(retries, DecoratorMaxValue, elapsed,
                                     DecoratorMaxTime) : wait' = w
                /\ retries' = retries + 1
                /\ nsleeps' = nsleeps + 1
                /\ ppc' = "sleep"
                /\ decision' = IF transport THEN "retry_error" ELSE "continue"
                /\ UNCHANGED <<oretries, exc, exitCode, timedOut>>
    /\ UNCHANGED <<variant, istart, oelapsed, maxBackoff, maxWaitTime, evt, wpc>>
    /\ UNCHANGED <<evtSets, fresh, flowVars, otherVars>>

\* time.sleep(seconds) / asyncio.sleep(seconds) of the retry loop
Sleep ==
    /\ variant \in {"generic", "catalog"}
    /\ ppc = "sleep"
    /\ now' = now + wait
    /\ ppc' = "call"
    /\ afterFail' = (afterFail \/ failObserved)
    /\ UNCHANGED <<variant, remote, status, retries, istart, oretries, oelapsed,
                   wait, exc, exitCode, maxBackoff, maxWaitTime, polls, nsleeps,
                   evt, wpc, failObserved, decision, timedOut, scen>>
    /\ UNCHANGED <<evtSets, fresh, flowVars, otherVars>>

\* the outer loop's sleep, then its next pass: elapsed is read, the inner loop restarts
OuterSleep ==
    /\ variant = "catalog"
    /\ ppc = "osleep"
    /\ now' = now + wait
    /\ oelapsed' = now'
    /\ istart' = now'
    /\ retries' = 0
    /\ ppc' = "call"
    /\ afterFail' = (afterFail \/ failObserved)
    /\ UNCHANGED <<variant, remote, status, oretries, wait, exc, exitCode,
                   maxBackoff, maxWaitTime, polls, nsleeps, evt, wpc,
                   failObserved, decision, timedOut, scen>>
    /\ UNCHANGED <<evtSets, fresh, flowVars, otherVars>>

(***************************************************************************)
(* AsyncJob.                                                               *)
(***************************************************************************)
\* check_status: the handle's status after one call that read s
check_status_status(cur, s) ==
    LET st == IF cur # s THEN s ELSE cur IN
    IF st \notin {"Accepted", "Running"} THEN "job completed" ELSE st

\* a check_status that leaves the event alone when the job has ended
check_status_sets_while_running(cur, s) == cur # s /\ s \in {"Accepted", "Running"}

\* check_status: whether that call sets status_changed
check_status_sets(cur, s) == cur # s

\* get_job_status: asyncio.sleep(10) of the loop
AsyncSleep ==
    /\ variant = "async"
    /\ ppc = "sleep"
    /\ polls < MaxPolls
    /\ now' = now + AsyncSleepSeconds
    /\ wait' = AsyncSleepSeconds
    /\ nsleeps' = nsleeps + 1
    /\ ppc' = "call"
    /\ afterFail' = (afterFail \/ failObserved)
    /\ UNCHANGED <<variant, remote, status, retries, istart, oretries, oelapsed,
                   exc, exitCode, maxBackoff, maxWaitTime, polls, evt, wpc,
                   failObserved, decision, timedOut, scen>>
    /\ UNCHANGED <<evtSets, fresh, flowVars, otherVars>>

\* get_job_status: await self.check_status(), then the loop test
AsyncCheck ==
    /\ variant = "async"
    /\ ppc = "call"
    /\ \E d \in CallDurations, transport \in BOOLEAN, s \in RemoteNext(remote) :
        /\ now' = now + d
        /\ polls' = polls + 1
        /\ remote' = IF transport THEN remote ELSE s
        /\ failObserved' = (failObserved \/ (~transport /\ s \in FailureTerminals))
        /\ afterFail' = (afterFail \/ failObserved)
        /\ scen' = ScenNext(s, transport)
        /\ IF transport
           THEN /\ ppc' = "raised"
                /\ exc' = "TransportError"
                /\ exitCode' = ExitOf(variant, "TransportError")
                /\ decision' = "fail_error"
                /\ UNCHANGED <<status, evt, evtSets>>
           ELSE /\ status' = check_status_status(status, s)
                /\ evt' = (evt \/ check_status_sets(status, s))
                /\ evtSets' = evtSets + (IF check_status_sets(status, s) THEN 1 ELSE 0)
                /\ ppc' = IF status' = "job completed" THEN "returned" ELSE "sleep"
                /\ decision' = IF status' = "job completed" THEN "succeed" ELSE "continue"
                /\ UNCHANGED <<exc, exitCode>>
    /\ UNCHANGED <<variant, retries, istart, oretries, oelapsed, wait, nsleeps,
                   maxBackoff, maxWaitTime, wpc, timedOut>>
    /\ UNCHANGED <<fresh, flowVars, otherVars>>

\* wait_for_status_change: woken by the event, clears it, recurses unless completed
AsyncWaiter ==
    /\ variant = "async"
    /\ wpc = "waiting"
    /\ ppc # "call"
    /\ evt
    /\ evt' = FALSE
    /\ wpc' = IF status # "job completed" THEN "waiting" ELSE "done"
    /\ UNCHANGED <<variant, remote, now, ppc, status, retries, istart, oretries,
                   oelapsed, wait, exc, exitCode, maxBackoff, maxWaitTime,
                   polls, nsleeps, failObserved, afterFail, decision, timedOut, scen>>
    /\ UNCHANGED <<evtSets, fresh, flowVars, otherVars>>

ParseIdle ==
    /\ pimpl = "none"
    /\ pform = "none"
    /\ pbucket = ""
    /\ pkey = <<>>
    /\ s3pc = "idle"
    /\ presult = <<>>

ErrorIdle ==
    /\ eimpl = "none"
    /\ error_details = [kind |-> "None"]
    /\ response_code = ""
    /\ epc = "idle"
    /\ emessage = ""

CatalogIdle ==
    /\ ccolls = <<>>
    /\ cargid = ""
    /\ cpc = "idle"
    /\ ci = 0
    /\ coutcomes = <<>>
    /\ collections_ingested = 0
    /\ failed_collections = <<>>
    /\ ogc_uris = <<>>
    /\ asset_uris = <<>>
    /\ notifications = <<>>
    /\ cnoteFailed = FALSE
    /\ csuccess = FALSE
    /\ cexit = -1

NotifyIdle ==
    /\ nimpl = ""
    /\ npoints = <<>>
    /\ ni = 0
    /\ nposts = <<>>
    /\ npc = "idle"
    /\ nexit = -1

StageIdle ==
    /\ script = ""
    /\ sfiles = 0
    /\ overwrite_existing = FALSE
    /\ local_download_path = ""
    /\ sexisting = {}
    /\ slocal = {}
    /\ downloaded_file_paths = <<>>
    /\ suploaded = {}
    /\ sraised = ""
    /\ current_exception = ""
    /\ spc = "idle"
    /\ sexit = -1

HrefIdle ==
    /\ assets = <<>>
    /\ hrefs = <<>>
    /\ hi = 0
    /\ hpc = "idle"

MoreIdle ==
    /\ ParseIdle
    /\ ErrorIdle
    /\ CatalogIdle
    /\ NotifyIdle
    /\ StageIdle
    /\ HrefIdle

ResolveIdle ==
    /\ rimpl = "none"
    /\ rjobs = <<>>
    /\ rext = ""
    /\ rprefixes = FALSE
    /\ rpc = "idle"
    /\ ri = 0
    /\ routput = <<>>

ArgsIdle ==
    /\ entry = "none"
    /\ granule_id = ""
    /\ collection_id = ""
    /\ input_s3 = <<>>
    /\ steps_arg = <<"all">>
    /\ enable_concat = FALSE
    /\ transformers_ok = TRUE
    /\ apc = "idle"
    /\ input_type = "None"
    /\ enabled_steps = <<"None">>
    /\ current_output = FALSE
    /\ ran = <<>>
    /\ remoteCalls = 0
    /\ aexit = -1

\* the pipeline run is not part of this specification
FlowIdle ==
    /\ pipeline = "none"
    /\ inputType = "none"
    /\ enableConcat = FALSE
    /\ fpc = "idle"
    /\ jobs = <<>>
    /\ curStage = "none"
    /\ waitList = <<>>
    /\ awaited = {}
    /\ stageOut = {}
    /\ zarrJob = 0
    /\ fexit = -1
    /\ cataloged = FALSE
    /\ resolved = {}
    /\ tifs = {}
    /\ cogOutcome = "none"
    /\ failedSeen = FALSE
    /\ uploaded = {}
    /\ manifestRefs = {}
    /\ ncFound = -1
    /\ outputs = <<>>

Init ==
    /\ variant \in {"generic", "catalog", "async"}
    /\ remote = "Accepted"
    /\ now = 0
    /\ ppc = IF variant = "async" THEN "sleep" ELSE "call"
    /\ status = IF variant = "async" THEN "..." ELSE ""
    /\ retries = 0
    /\ istart = 0
    /\ oretries = 0
    /\ oelapsed = 0
    /\ wait = -1
    /\ exc = "none"
    /\ exitCode = -1
    /\ \E a \in CatalogArgs :
          /\ variant # "catalog" => a = <<DefaultMaxBackoff, DefaultMaxWaitTime>>
          /\ maxBackoff = a[1]
          /\ maxWaitTime = a[2]
    /\ polls = 0
    /\ nsleeps = 0
    /\ evt = FALSE
    /\ wpc = IF variant = "async" THEN "waiting" ELSE "done"
    /\ failObserved = FALSE
    /\ afterFail = FALSE
    /\ decision = "none"
    /\ timedOut = FALSE
    /\ scen = 0
    /\ evtSets = 0
    /\ fresh = FALSE
    /\ FlowIdle
    /\ ArgsIdle
    /\ ResolveIdle
    /\ MoreIdle

Next ==
    \/ GenericAttempt
    \/ CatalogAttempt
    \/ Sleep
    \/ OuterSleep
    \/ AsyncSleep
    \/ AsyncCheck
    \/ AsyncWaiter

Spec == Init /\ [][Next]_vars

\* One AsyncJob poller with the scheduling of the asyncio loop: a task that
\* the event has made ready is run.  The steps of other pollers under the
\* same asyncio.gather touch none of this poller's fields and are stuttering
\* steps here.
InitAsync == Init /\ variant = "async"

NextAsync ==
    \/ AsyncSleep
    \/ AsyncCheck
    \/ AsyncWaiter

SpecAsync == InitAsync /\ [][NextAsync]_vars /\ WF_vars(AsyncWaiter)

(***************************************************************************)
(* SpecHandle : one AsyncJob handle as an object.  Its caller refreshes it *)
(* with check_status when it likes, the wait_for_status_change task runs   *)
(* in between, and the remote status changes on its own.                   *)
(***************************************************************************)
PollerIdle ==
    /\ now = 0
    /\ ppc = "idle"
    /\ retries = 0
    /\ istart = 0
    /\ oretries = 0
    /\ oelapsed = 0
    /\ wait = -1
    /\ exc = "none"
    /\ exitCode = -1
    /\ maxBackoff = DefaultMaxBackoff
    /\ maxWaitTime = DefaultMaxWaitTime
    /\ nsleeps = 0
    /\ failObserved = FALSE
    /\ afterFail = FALSE
    /\ decision = "none"
    /\ timedOut = FALSE
    /\ scen = -1

InitHandle ==
    /\ variant = "handle"
    /\ remote \in Statuses
    /\ status = "..."
    /\ evt = FALSE
    /\ wpc = "waiting"
    /\ polls = 0
    /\ evtSets = 0
    /\ fresh = FALSE
    /\ PollerIdle
    /\ FlowIdle
    /\ ArgsIdle
    /\ ResolveIdle
    /\ MoreIdle

\* AsyncJob.check_status, called on the handle
HandleRefresh ==
    /\ variant = "handle"
    /\ polls < MaxPolls
    /\ polls' = polls + 1
    /\ status' = check_status_status(status, remote)
    /\ evt' = (evt \/ check_status_sets(status, remote))
    /\ evtSets' = evtSets + (IF check_status_sets(status, remote) THEN 1 ELSE 0)
    /\ fresh' = TRUE
    /\ UNCHANGED <<variant, remote, now, ppc, retries, istart, oretries, oelapsed,
                   wait, exc, exitCode, maxBackoff, maxWaitTime, nsleeps, wpc,
                   failObserved, afterFail, decision, timedOut, scen, flowVars, otherVars>>

\* AsyncJob.wait_for_status_change, one wake-up
HandleWaiter ==
    /\ variant = "handle"
    /\ wpc = "waiting"
    /\ evt
    /\ evt' = FALSE
    /\ wpc' = IF status # "job completed" THEN "waiting" ELSE "done"
    /\ UNCHANGED <<variant, remote, now, ppc, status, retries, istart, oretries,
                   oelapsed, wait, exc, exitCode, maxBackoff, maxWaitTime, polls,
                   nsleeps, failObserved, afterFail, decision, timedOut, scen,
                   evtSets, fresh, flowVars, otherVars>>

\* the remote executor moves the job on
HandleRemoteChange ==
    /\ variant = "handle"
    /\ \E s \in RemoteNext(remote) \ {remote} : remote' = s
    /\ fresh' = FALSE
    /\ UNCHANGED <<variant, now, ppc, status, retries, istart, oretries, oelapsed,
                   wait, exc, exitCode, maxBackoff, maxWaitTime, polls, nsleeps,
                   evt, wpc, failObserved, afterFail, decision, timedOut, scen,
                   evtSets, flowVars, otherVars>>

NextHandle ==
    \/ HandleRefresh
    \/ HandleWaiter
    \/ HandleRemoteChange

SpecHandle == InitHandle /\ [][NextHandle]_vars

(***************************************************************************)
(* SpecFlow : one run of a pipeline main (pipeline_generic, pipeline_daac, *)
(* pipeline_netcdf).  A step is what a stage function does between two     *)
(* suspension points: resolve the input, submit, or one status poll.       *)
(* A job handle is its index in jobs; ok is "the submission returned an    *)
(* id", st the last status read for it.                                    *)
(***************************************************************************)
FlowStatuses == {"Running", "Succeeded", "Failed", "Dismissed"}

NewJob(stage, ok) == [stage |-> stage, ok |-> ok, st |-> "none"]

JobsOf(stage) == {j \in 1..Len(jobs) : jobs[j].stage = stage}

\* retrieve_result and the bucket listing for one handle: -1 is "no result
\* location", otherwise the number of matching objects.  Only a job that
\* succeeded has products; a handle without id has no result at all.
Listings(j) ==
    IF ~jobs[j].ok THEN {-1}
    ELSE IF jobs[j].st = "Succeeded" THEN {-1} \cup (0..MaxFan)
    ELSE {-1, 0}

RECURSIVE Total(_, _)
Total(f, H) ==
    IF H = {} THEN 0
    ELSE LET j == CHOOSE x \in H : TRUE IN
         (IF f[j] > 0 THEN f[j] ELSE 0) + Total(f, H \ {j})

\* get_dps_output over the handles H: what each handle's listing gives
Resolutions(H) ==
    {f \in [H -> -1..MaxFan] :
        /\ \A j \in H : f[j] \in Listings(j)
        /\ Total(f, H) <= MaxFan}

\* pipeline_daac.get_dps_output has no None check: parse_s3_path(None) raises
ResolutionRaises(p, f, H) == p = "daac" /\ \E j \in H : f[j] = -1

RECURSIVE Ordered(_)
Ordered(S) ==
    IF S = {} THEN <<>>
    ELSE LET m == CHOOSE x \in S : \A y \in S : x <= y IN <<m>> \o Ordered(S \ {m})

Without(seq, i) == [k \in 1..(Len(seq) - 1) |-> IF k < i THEN seq[k] ELSE seq[k + 1]]

FirstStage(p, t) ==
    IF p = "stac_cat" THEN "search"
    ELSE IF p = "netcdf" THEN "netcdf2zarr"
    ELSE IF p = "daac" \/ t = "daac" THEN "stage"
    ELSE IF t = "s3_netcdf" THEN "netcdf2zarr"
    ELSE "zarr2cog"

\* the order of the calls in main (and in pipeline_daac.transform)
NextStage(p, s, concat) ==
    IF s = "stage" THEN "netcdf2zarr"
    ELSE IF s = "netcdf2zarr" THEN
        (IF p = "daac" \/ (p = "generic" /\ concat) THEN "concat" ELSE "zarr2cog")
    ELSE IF s = "concat" THEN (IF p = "stac_cat" THEN "register" ELSE "zarr2cog")
    ELSE "catalog"

\* the except clauses of main; stac_cat has none, its exceptions end the
\* interpreter with exit status 1
Raise(e) ==
    /\ fpc' = "exited"
    /\ fexit' = IF pipeline = "stac_cat" THEN ExitGeneric ELSE GenericExit(e)

MaapUsername == "user"

ManifestBucket == "maap-ops-workspace"

S3Object(bucket, key) == [bucket |-> bucket, key |-> key]

\* manifest_key = f"{maap_username}/zarr_concat_manifests/{id}.json"
ManifestKey(user, id) == [user |-> user, dir |-> "zarr_concat_manifests", file |-> id]

\* pipeline_daac.upload_to_s3: the key is the prefix and the local file's name
UploadToS3Key(prefix, file) == [user |-> prefix.user, dir |-> prefix.dir, file |-> file]

ManifestUrlMisplaced(user, id) ==
    S3Object("maap-ops-workspace", [user |-> user, dir |-> "zarr_manifests", file |-> id])

\* zarr_manifest = f"s3://maap-ops-workspace/{maap_username}/zarr_concat_manifests/{id}.json"
ManifestUrl(user, id) ==
    S3Object("maap-ops-workspace", [user |-> user, dir |-> "zarr_concat_manifests", file |-> id])

\* a completed upload_file of a manifest listing n Zarr stores
Upload(obj, n) == [obj |-> obj, urls |-> n]

\* the uuid4 of stac_cat's manifest; job ids are 1, 2, ...
ManifestUuid == 0

\* a store or output name: what it is named after, and which of the stores
\* with that stem it is
Name(base, id, k, ext) == [base |-> base, id |-> id, k |-> k, ext |-> ext]

\* the store of an S3 input, or the one named after the input file
\* (output_zarr_name = f"{base_name}.zarr")
InputStore == Name("input", 0, 1, ".zarr")

ConcatOutputNoId(id) == Name("concat", 0, 1, ".zarr")

\* output = f"concat.{id}.zarr", id that of the handle whose manifest is read
ConcatOutput(id) == Name("concat", id, 1, ".zarr")

\* a submission's output parameter together with the handle it returned
Output(j, stage, name) == [job |-> j, stage |-> stage, name |-> name]

\* the output name handle j was submitted with
ProducerName(j) ==
    IF \E i \in DOMAIN outputs : outputs[i].job = j
    THEN outputs[CHOOSE i \in DOMAIN outputs : outputs[i].job = j].name
    ELSE InputStore

\* the k-th store found under the result location of handle j
StoreName(j, k) == [ProducerName(j) EXCEPT !.k = k]

\* the stores get_dps_output finds for the handles in order, f[j] under handle j
RECURSIVE StoreList(_, _)
StoreList(f, order) ==
    IF order = <<>> THEN <<>>
    ELSE LET j == Head(order)
             n == IF f[j] > 0 THEN f[j] ELSE 0
         IN [k \in 1..n |-> StoreName(j, k)] \o StoreList(f, Tail(order))

\* output_name = zarr_file.split("/")[-1].replace(".zarr", "")
CogOutputName(store) == [store EXCEPT !.ext = ""]

\* the output names of a Zarr-to-COG fan-out over the stores
CogOutputs(stores) ==
    outputs \o [i \in DOMAIN stores |->
                  Output(Len(jobs) + i, "zarr2cog", CogOutputName(stores[i]))]

\* submit one job, fail on a missing id, else go and wait for it
SubmitOne(stage, ok) ==
    /\ jobs' = Append(jobs, NewJob(stage, ok))
    /\ IF ok
       THEN /\ fpc' = "wait"
            /\ fexit' = fexit
            /\ waitList' = <<Len(jobs) + 1>>
            /\ awaited' = {Len(jobs) + 1}
       ELSE /\ Raise("RuntimeError")
            /\ UNCHANGED <<waitList, awaited>>

\* submit n jobs, one per store; the handles with an id are awaited
FanOut(stage, oks) == jobs \o [i \in DOMAIN oks |-> NewJob(stage, oks[i])]

FanAccepted(oks) == {Len(jobs) + i : i \in {k \in DOMAIN oks : oks[k]}}

FanAll(oks) == {Len(jobs) + i : i \in DOMAIN oks}

InitFlow ==
    /\ variant = "flow"
    /\ remote = "Accepted"
    /\ status = ""
    /\ evt = FALSE
    /\ wpc = "idle"
    /\ polls = 0
    /\ evtSets = 0
    /\ fresh = FALSE
    /\ PollerIdle
    /\ ArgsIdle
    /\ ResolveIdle
    /\ MoreIdle
    /\ pipeline \in {"generic", "daac", "netcdf", "stac_cat"}
    /\ inputType \in {"daac", "s3_netcdf", "s3_zarr"}
    /\ enableConcat \in BOOLEAN
    /\ pipeline = "daac" => (inputType = "daac" /\ ~enableConcat)
    /\ pipeline = "stac_cat" => inputType = "s3_zarr"
    /\ pipeline = "netcdf" => (inputType = "s3_netcdf" /\ ~enableConcat)
    /\ fpc = "submit"
    /\ curStage = FirstStage(pipeline, inputType)
    /\ jobs = <<>>
    /\ waitList = <<>>
    /\ awaited = {}
    /\ stageOut = {}
    /\ zarrJob = 0
    /\ fexit = -1
    /\ cataloged = FALSE
    /\ resolved = {}
    /\ tifs = {}
    /\ cogOutcome = "none"
    /\ failedSeen = FALSE
    /\ uploaded = {}
    /\ manifestRefs = {}
    /\ ncFound = -1
    /\ outputs = <<>>

\* pipeline_generic.stage_from_daac, up to its await
stage_from_daac ==
    /\ pipeline = "generic"
    /\ fpc = "submit"
    /\ curStage = "stage"
    /\ \E ok \in BOOLEAN : SubmitOne("stage", ok)
    /\ UNCHANGED <<pipeline, inputType, enableConcat, curStage, stageOut, zarrJob,
                   cataloged, resolved, tifs, cogOutcome, failedSeen, pollerVars, manifestVars, ncFound, outputs,
                   otherVars>>

\* pipeline_generic.convert_netcdf_to_zarr, up to its await
convert_netcdf_to_zarr ==
    /\ pipeline = "generic"
    /\ fpc = "submit"
    /\ curStage = "netcdf2zarr"
    /\ IF inputType = "s3_netcdf"
       THEN /\ resolved' = resolved
            /\ ncFound' = ncFound
            /\ \E ok \in BOOLEAN : SubmitOne("netcdf2zarr", ok)
       ELSE \E f \in Resolutions(stageOut) :
              /\ resolved' = resolved \cup stageOut
              /\ ncFound' = Total(f, stageOut)
              /\ IF Total(f, stageOut) = 0
                 THEN /\ Raise("RuntimeError")
                      /\ UNCHANGED <<jobs, waitList, awaited>>
                 ELSE \E ok \in BOOLEAN : SubmitOne("netcdf2zarr", ok)
    /\ UNCHANGED <<pipeline, inputType, enableConcat, curStage, stageOut, zarrJob,
                   cataloged, tifs, cogOutcome, failedSeen, pollerVars, uploaded,
                   manifestRefs, outputs, otherVars>>

\* pipeline_generic.concatenate_zarr, up to its await
concatenate_zarr_manifest ==
    /\ pipeline = "generic"
    /\ fpc = "submit"
    /\ curStage = "concat"
    /\ resolved' = resolved \cup {zarrJob}
    /\ \E f \in Resolutions({zarrJob}), stored \in BOOLEAN :
         IF stored
         THEN /\ uploaded' = uploaded \cup
                    {Upload(S3Object(ManifestBucket, ManifestKey(MaapUsername, zarrJob)),
                            Total(f, {zarrJob}))}
              /\ fpc' = "uploaded"
              /\ fexit' = fexit
         ELSE /\ Raise("S3UploadFailedError")
              /\ uploaded' = uploaded
    /\ UNCHANGED <<pipeline, inputType, enableConcat, jobs, curStage, waitList, awaited,
                   stageOut, zarrJob, cataloged, tifs, cogOutcome, failedSeen,
                   manifestRefs, ncFound, outputs, pollerVars, otherVars>>

\* pipeline_generic.concatenate_zarr from submitJob up to its await
concatenate_zarr ==
    /\ pipeline = "generic"
    /\ fpc = "uploaded"
    /\ curStage = "concat"
    /\ manifestRefs' = manifestRefs \cup {ManifestUrl(MaapUsername, zarrJob)}
    /\ outputs' = Append(outputs, Output(Len(jobs) + 1, "concat", ConcatOutput(zarrJob)))
    /\ \E ok \in BOOLEAN : SubmitOne("concat", ok)
    /\ UNCHANGED <<pipeline, inputType, enableConcat, curStage, stageOut, zarrJob,
                   cataloged, resolved, tifs, cogOutcome, failedSeen, uploaded,
                   ncFound, pollerVars, otherVars>>

\* pipeline_generic.convert_zarr_to_cog, up to its first await
convert_zarr_to_cog ==
    /\ pipeline = "generic"
    /\ fpc = "submit"
    /\ curStage = "zarr2cog"
    /\ \E n \in IF inputType = "s3_zarr" THEN {1}
                ELSE {Total(f, {zarrJob}) : f \in Resolutions({zarrJob})} :
         /\ resolved' = IF inputType = "s3_zarr" THEN resolved ELSE resolved \cup {zarrJob}
         /\ IF n = 0
            THEN /\ Raise("RuntimeError")
                 /\ cogOutcome' = "RuntimeError"
                 /\ UNCHANGED <<jobs, waitList, awaited, outputs>>
            ELSE \E oks \in [1..n -> BOOLEAN] :
                   /\ jobs' = FanOut("zarr2cog", oks)
                   /\ outputs' = CogOutputs(IF inputType = "s3_zarr" THEN <<InputStore>>
                                            ELSE [k \in 1..n |-> StoreName(zarrJob, k)])
                   /\ awaited' = FanAccepted(oks)
                   /\ waitList' = Ordered(FanAccepted(oks))
                   /\ IF FanAccepted(oks) = {}
                      THEN /\ Raise("RuntimeError")
                           /\ cogOutcome' = "RuntimeError"
                      ELSE /\ fpc' = "wait"
                           /\ UNCHANGED <<fexit, cogOutcome>>
    /\ UNCHANGED <<pipeline, inputType, enableConcat, curStage, stageOut, zarrJob,
                   cataloged, tifs, failedSeen, pollerVars, manifestVars, ncFound,
                   otherVars>>

\* the stage function returns to main after its last wait
StageReturns(j) ==
    /\ waitList' = <<>>
    /\ fpc' = "submit"
    /\ curStage' = NextStage(pipeline, curStage, enableConcat)
    /\ stageOut' = awaited
    /\ zarrJob' = IF curStage \in {"netcdf2zarr", "concat"} THEN j ELSE zarrJob
    /\ cogOutcome' = IF curStage = "zarr2cog" THEN "returned" ELSE cogOutcome

\* one attempt of wait_for_completion on the handle the stage is waiting for
\* (pipeline_generic and pipeline_netcdf wait for their jobs one after another)
WaitAttempt ==
    /\ pipeline \in {"generic", "netcdf", "stac_cat"}
    /\ fpc = "wait"
    /\ LET j == Head(waitList) IN
       \E s \in RemoteNext(jobs[j].st) \cap FlowStatuses :
         /\ jobs' = [jobs EXCEPT ![j].st = s]
         /\ failedSeen' = (failedSeen \/ s \in FailureTerminals)
         /\ IF wait_for_completion(s) = "return"
            THEN IF Len(waitList) > 1
                 THEN /\ waitList' = Tail(waitList)
                      /\ UNCHANGED <<fpc, curStage, stageOut, zarrJob, cogOutcome>>
                 ELSE StageReturns(j)
            ELSE UNCHANGED <<waitList, fpc, curStage, stageOut, zarrJob, cogOutcome>>
    /\ UNCHANGED <<pipeline, inputType, enableConcat, awaited, fexit, cataloged,
                   resolved, tifs, pollerVars, manifestVars, ncFound, outputs,
                   otherVars>>

\* the decorator gives up after max_time and re-raises the RuntimeError
WaitGiveUp ==
    /\ pipeline \in {"generic", "netcdf", "stac_cat"}
    /\ fpc = "wait"
    /\ wait_for_completion(jobs[Head(waitList)].st) = "RuntimeError"
    /\ Raise(wait_for_completion(jobs[Head(waitList)].st))
    /\ failedSeen' = TRUE
    /\ UNCHANGED <<pipeline, inputType, enableConcat, jobs, curStage, waitList,
                   awaited, stageOut, zarrJob, cataloged, resolved, tifs,
                   cogOutcome, pollerVars, manifestVars, ncFound, outputs,
                   otherVars>>

\* pipeline_generic.catalog_products and the normal end of main
catalog_products ==
    /\ pipeline = "generic"
    /\ fpc = "submit"
    /\ curStage = "catalog"
    /\ \E f \in Resolutions(stageOut) :
         tifs' = {j \in stageOut : f[j] > 0}
    /\ resolved' = resolved \cup stageOut
                      \cup (IF inputType = "s3_zarr" THEN {} ELSE {zarrJob})
    /\ cataloged' = TRUE
    /\ fpc' = "done"
    /\ fexit' = ExitSuccess
    /\ UNCHANGED <<pipeline, inputType, enableConcat, jobs, curStage, waitList,
                   awaited, stageOut, zarrJob, cogOutcome, failedSeen, pollerVars, manifestVars, ncFound, outputs,
                   otherVars>>

\* pipeline_netcdf.convert_to_zarr, up to its wait
netcdf_convert_to_zarr ==
    /\ pipeline = "netcdf"
    /\ fpc = "submit"
    /\ curStage = "netcdf2zarr"
    /\ \E ok \in BOOLEAN : SubmitOne("netcdf2zarr", ok)
    /\ UNCHANGED <<pipeline, inputType, enableConcat, curStage, stageOut, zarrJob,
                   cataloged, resolved, tifs, cogOutcome, failedSeen, pollerVars, manifestVars, ncFound, outputs,
                   otherVars>>

\* pipeline_netcdf.convert_zarr_to_cog, up to its first wait
netcdf_convert_zarr_to_cog ==
    /\ pipeline = "netcdf"
    /\ fpc = "submit"
    /\ curStage = "zarr2cog"
    /\ resolved' = resolved \cup {zarrJob}
    /\ \E f \in Resolutions({zarrJob}) :
       \E oks \in [1..Total(f, {zarrJob}) -> BOOLEAN] :
         /\ jobs' = FanOut("zarr2cog", oks)
         /\ outputs' = CogOutputs(StoreList(f, <<zarrJob>>))
         /\ awaited' = FanAccepted(oks)
         /\ waitList' = Ordered(FanAccepted(oks))
         /\ IF FanAccepted(oks) = {}
            THEN /\ Raise("RuntimeError")
                 /\ cogOutcome' = "RuntimeError"
            ELSE /\ fpc' = "wait"
                 /\ UNCHANGED <<fexit, cogOutcome>>
    /\ UNCHANGED <<pipeline, inputType, enableConcat, curStage, stageOut, zarrJob,
                   cataloged, tifs, failedSeen, pollerVars, manifestVars, ncFound,
                   otherVars>>

\* pipeline_netcdf.main calls catalog with three of its four arguments
netcdf_catalog ==
    /\ pipeline = "netcdf"
    /\ fpc = "submit"
    /\ curStage = "catalog"
    /\ Raise("TypeError")
    /\ UNCHANGED <<pipeline, inputType, enableConcat, jobs, curStage, waitList,
                   awaited, stageOut, zarrJob, cataloged, resolved, tifs,
                   cogOutcome, failedSeen, pollerVars, manifestVars, ncFound, outputs,
                   otherVars>>

\* pipeline_daac.ingest, up to its await: the handle is awaited whatever its id
ingest ==
    /\ pipeline = "daac"
    /\ fpc = "submit"
    /\ curStage = "stage"
    /\ \E ok \in BOOLEAN : jobs' = Append(jobs, NewJob("stage", ok))
    /\ fpc' = "wait"
    /\ waitList' = <<Len(jobs) + 1>>
    /\ awaited' = {Len(jobs) + 1}
    /\ UNCHANGED <<pipeline, inputType, enableConcat, curStage, stageOut, zarrJob,
                   fexit, cataloged, resolved, tifs, cogOutcome, failedSeen,
                   pollerVars, manifestVars, ncFound, outputs,
                   otherVars>>

\* the fan-out part of a pipeline_daac stage: submit, then gather the handles
\* that have an id; with none of them the stage goes on without suspending
DaacFanOut(stage, oks) ==
    /\ jobs' = FanOut(stage, oks)
    /\ awaited' = FanAccepted(oks)
    /\ waitList' = Ordered(FanAccepted(oks))
    /\ fexit' = fexit
    /\ IF FanAccepted(oks) # {}
       THEN /\ fpc' = "wait"
            /\ UNCHANGED <<curStage, stageOut, cogOutcome>>
       ELSE IF stage = "netcdf2zarr"
       THEN /\ fpc' = "manifests"
            /\ UNCHANGED <<curStage, stageOut, cogOutcome>>
       ELSE /\ fpc' = "submit"
            /\ curStage' = NextStage(pipeline, stage, enableConcat)
            /\ stageOut' = FanAll(oks)
            /\ cogOutcome' = IF stage = "zarr2cog" THEN "returned" ELSE cogOutcome

\* pipeline_daac.convert_to_zarr, up to its gather
daac_convert_to_zarr ==
    /\ pipeline = "daac"
    /\ fpc = "submit"
    /\ curStage = "netcdf2zarr"
    /\ resolved' = resolved \cup stageOut
    /\ \E f \in Resolutions(stageOut) :
         IF ResolutionRaises(pipeline, f, stageOut)
         THEN /\ Raise("AttributeError")
              /\ UNCHANGED <<jobs, awaited, waitList, curStage, stageOut, cogOutcome,
                             ncFound>>
         ELSE /\ ncFound' = Total(f, stageOut)
              /\ \E oks \in [1..Total(f, stageOut) -> BOOLEAN] :
                   DaacFanOut("netcdf2zarr", oks)
    /\ UNCHANGED <<pipeline, inputType, enableConcat, zarrJob, cataloged, tifs,
                   failedSeen, pollerVars, uploaded, manifestRefs, outputs,
                   otherVars>>

\* pipeline_daac.convert_to_zarr after its gather: one manifest per submitted
\* handle, with or without id
daac_convert_to_zarr_manifests ==
    /\ pipeline = "daac"
    /\ fpc = "manifests"
    /\ resolved' = resolved \cup JobsOf("netcdf2zarr")
    /\ \E f \in Resolutions(JobsOf("netcdf2zarr")) :
         IF ResolutionRaises(pipeline, f, JobsOf("netcdf2zarr"))
         THEN /\ Raise("AttributeError")
              /\ UNCHANGED <<curStage, stageOut, uploaded>>
         ELSE LET order == Ordered(JobsOf("netcdf2zarr"))
                  prefix == [user |-> MaapUsername, dir |-> "zarr_concat_manifests"]
              IN \E k \in 0..Len(order) :
                   /\ uploaded' = uploaded \cup
                         {Upload(S3Object(ManifestBucket, UploadToS3Key(prefix, order[i])),
                                 Total(f, {order[i]})) : i \in 1..k}
                   /\ IF k = Len(order)
                      THEN /\ fpc' = "submit"
                           /\ fexit' = fexit
                           /\ curStage' = NextStage(pipeline, "netcdf2zarr", enableConcat)
                           /\ stageOut' = JobsOf("netcdf2zarr")
                      ELSE /\ Raise("UploadError")
                           /\ UNCHANGED <<curStage, stageOut>>
    /\ UNCHANGED <<pipeline, inputType, enableConcat, jobs, waitList, awaited,
                   zarrJob, cataloged, tifs, cogOutcome, failedSeen, manifestRefs,
                   ncFound, outputs, pollerVars, otherVars>>

\* pipeline_daac.convert_to_concatenated_zarr, up to its gather
convert_to_concatenated_zarr ==
    /\ pipeline = "daac"
    /\ fpc = "submit"
    /\ curStage = "concat"
    /\ IF \E j \in stageOut : ~jobs[j].ok
       THEN /\ Raise("TypeError")
            /\ UNCHANGED <<jobs, awaited, waitList, curStage, stageOut, cogOutcome,
                           manifestRefs, outputs>>
       ELSE /\ manifestRefs' = manifestRefs \cup
                  {ManifestUrl(MaapUsername, j) : j \in stageOut}
            /\ outputs' = outputs \o
                  [i \in 1..Cardinality(stageOut) |->
                     Output(Len(jobs) + i, "concat", ConcatOutput(Ordered(stageOut)[i]))]
            /\ \E oks \in [1..Cardinality(stageOut) -> BOOLEAN] :
                 DaacFanOut("concat", oks)
    /\ UNCHANGED <<pipeline, inputType, enableConcat, zarrJob, cataloged, resolved,
                   tifs, failedSeen, uploaded, ncFound, pollerVars, otherVars>>

\* pipeline_daac.convert_zarr_to_cog, up to its gather
daac_convert_zarr_to_cog ==
    /\ pipeline = "daac"
    /\ fpc = "submit"
    /\ curStage = "zarr2cog"
    /\ resolved' = resolved \cup stageOut
    /\ \E f \in Resolutions(stageOut) :
         IF ResolutionRaises(pipeline, f, stageOut)
         THEN /\ Raise("AttributeError")
              /\ UNCHANGED <<jobs, awaited, waitList, curStage, stageOut, cogOutcome,
                             outputs>>
         ELSE /\ outputs' = CogOutputs(StoreList(f, Ordered(stageOut)))
              /\ \E oks \in [1..Total(f, stageOut) -> BOOLEAN] :
                   DaacFanOut("zarr2cog", oks)
    /\ UNCHANGED <<pipeline, inputType, enableConcat, zarrJob, cataloged, tifs,
                   failedSeen, pollerVars, manifestVars, ncFound,
                   otherVars>>

\* AsyncJob.get_job_status: one sleep and check_status of one gathered handle
AsyncJobPoll ==
    /\ pipeline = "daac"
    /\ fpc = "wait"
    /\ \E i \in 1..Len(waitList) :
       LET j == waitList[i] IN
       IF ~jobs[j].ok
       THEN /\ Raise("TypeError")
            /\ UNCHANGED <<jobs, waitList, curStage, stageOut, cogOutcome, failedSeen>>
       ELSE \E s \in RemoteNext(jobs[j].st) \cap FlowStatuses :
              /\ jobs' = [jobs EXCEPT ![j].st = s]
              /\ failedSeen' = (failedSeen \/ s \in FailureTerminals)
              /\ fexit' = fexit
              /\ IF check_status_status(jobs[j].st, s) # "job completed"
                 THEN UNCHANGED <<waitList, fpc, curStage, stageOut, cogOutcome>>
                 ELSE /\ waitList' = Without(waitList, i)
                      /\ IF Len(waitList) > 1
                         THEN UNCHANGED <<fpc, curStage, stageOut, cogOutcome>>
                         ELSE IF curStage = "netcdf2zarr"
                         THEN /\ fpc' = "manifests"
                              /\ UNCHANGED <<curStage, stageOut, cogOutcome>>
                         ELSE /\ fpc' = "submit"
                              /\ curStage' = NextStage(pipeline, curStage, enableConcat)
                              /\ stageOut' = JobsOf(curStage)
                              /\ cogOutcome' = IF curStage = "zarr2cog"
                                               THEN "returned" ELSE cogOutcome
    /\ UNCHANGED <<pipeline, inputType, enableConcat, awaited, zarrJob, cataloged,
                   resolved, tifs, pollerVars, manifestVars, ncFound, outputs,
                   otherVars>>

\* pipeline_daac.catalog and the normal end of main
daac_catalog ==
    /\ pipeline = "daac"
    /\ fpc = "submit"
    /\ curStage = "catalog"
    /\ resolved' = resolved \cup stageOut
    /\ \E f \in Resolutions(stageOut) :
         IF ResolutionRaises(pipeline, f, stageOut)
         THEN /\ Raise("AttributeError")
              /\ UNCHANGED <<tifs, cataloged>>
         ELSE /\ tifs' = {j \in stageOut : f[j] > 0}
              /\ cataloged' = TRUE
              /\ fpc' = "done"
              /\ fexit' = ExitSuccess
    /\ UNCHANGED <<pipeline, inputType, enableConcat, jobs, curStage, waitList,
                   awaited, stageOut, zarrJob, cogOutcome, failedSeen, pollerVars, manifestVars, ncFound, outputs,
                   otherVars>>

\* stac_cat.main from the STAC search to the upload of the concat manifest:
\* n Zarr URLs are found; none ends the run, one alone is used as it is
\* unless --force-concat (enableConcat) is given
stac_cat_manifest ==
    /\ pipeline = "stac_cat"
    /\ fpc = "submit"
    /\ curStage = "search"
    /\ \E n \in 0..MaxFan, stored \in BOOLEAN :
         IF n = 0
         THEN /\ fpc' = "done"
              /\ fexit' = ExitSuccess
              /\ UNCHANGED <<curStage, uploaded>>
         ELSE IF n = 1 /\ ~enableConcat
         THEN /\ curStage' = "register"
              /\ UNCHANGED <<fpc, fexit, uploaded>>
         ELSE IF stored
         THEN /\ uploaded' = uploaded \cup
                    {Upload(S3Object(ManifestBucket, ManifestKey(MaapUsername, ManifestUuid)), n)}
              /\ fpc' = "uploaded"
              /\ curStage' = "concat"
              /\ fexit' = fexit
         ELSE /\ Raise("S3UploadFailedError")
              /\ UNCHANGED <<curStage, uploaded>>
    /\ UNCHANGED <<pipeline, inputType, enableConcat, jobs, waitList, awaited, stageOut,
                   zarrJob, cataloged, resolved, tifs, cogOutcome, failedSeen,
                   manifestRefs, ncFound, outputs, pollerVars, otherVars>>

\* stac_cat.main: _submit_job_with_maap with zarr_manifest
\* f"s3://maap-ops-workspace/{manifest_key}", up to its await
stac_cat_submit ==
    /\ pipeline = "stac_cat"
    /\ fpc = "uploaded"
    /\ curStage = "concat"
    /\ manifestRefs' = manifestRefs \cup
          {S3Object(ManifestBucket, ManifestKey(MaapUsername, ManifestUuid))}
    /\ \E ok \in BOOLEAN : SubmitOne("concat", ok)
    /\ UNCHANGED <<pipeline, inputType, enableConcat, curStage, stageOut, zarrJob,
                   cataloged, resolved, tifs, cogOutcome, failedSeen, uploaded,
                   ncFound, outputs, pollerVars, otherVars>>

\* stac_cat.main after the wait: the concatenated store is resolved (none is
\* a RuntimeError) and registered with SDAP
stac_cat_register ==
    /\ pipeline = "stac_cat"
    /\ fpc = "submit"
    /\ curStage = "register"
    /\ resolved' = resolved \cup stageOut
    /\ \E f \in Resolutions(stageOut), registered \in BOOLEAN :
         IF (stageOut # {} /\ Total(f, stageOut) = 0) \/ ~registered
         THEN /\ Raise("RuntimeError")
              /\ cataloged' = cataloged
         ELSE /\ fpc' = "done"
              /\ fexit' = ExitSuccess
              /\ cataloged' = TRUE
    /\ UNCHANGED <<pipeline, inputType, enableConcat, jobs, curStage, waitList, awaited,
                   stageOut, zarrJob, tifs, cogOutcome, failedSeen, manifestVars, ncFound, outputs,
                   pollerVars, otherVars>>

NextFlow ==
    \/ stage_from_daac
    \/ convert_netcdf_to_zarr
    \/ concatenate_zarr_manifest
    \/ concatenate_zarr
    \/ convert_zarr_to_cog
    \/ WaitAttempt
    \/ WaitGiveUp
    \/ catalog_products
    \/ netcdf_convert_to_zarr
    \/ netcdf_convert_zarr_to_cog
    \/ netcdf_catalog
    \/ ingest
    \/ daac_convert_to_zarr
    \/ daac_convert_to_zarr_manifests
    \/ convert_to_concatenated_zarr
    \/ daac_convert_zarr_to_cog
    \/ AsyncJobPoll
    \/ daac_catalog
    \/ stac_cat_manifest
    \/ stac_cat_submit
    \/ stac_cat_register

SpecFlow == InitFlow /\ [][NextFlow]_vars

\* main runs on: a step that is possible is eventually taken
SpecFlowLive == InitFlow /\ [][NextFlow]_vars /\ WF_vars(NextFlow)

(***************************************************************************)
(* SpecArgs : argument validation, input-type detection and step selection *)
(* as main of pipeline_generic and main of localized_pipeline perform      *)
(* them, and the local stages localized_pipeline runs afterwards.  Strings *)
(* the code inspects by prefix or suffix are sequences of characters.      *)
(***************************************************************************)
S3Scheme == <<"s", "3", ":", "/", "/">>

BucketAndName == <<"b", "/", "x">>

ExtNc == <<".", "n", "c">>

ExtNc4 == <<".", "n", "c", "4">>

ExtZarr == <<".", "z", "a", "r", "r">>

ExtZarrSlash == <<".", "z", "a", "r", "r", "/">>

ExtGpkg == <<".", "g", "p", "k", "g">>

OtherSuffixes == {<<".", "t", "x", "t">>, <<".", "n", "c", "/">>, <<"n", "c">>}

Suffixes == {ExtNc, ExtNc4, ExtZarr, ExtZarrSlash, ExtGpkg} \cup OtherSuffixes

\* values of --input-s3: S3 URLs with each suffix, and one path without scheme
InputPaths ==
    {S3Scheme \o BucketAndName \o s : s \in Suffixes} \cup {BucketAndName \o ExtNc}

StartsWith(s, pre) == Len(s) >= Len(pre) /\ SubSeq(s, 1, Len(pre)) = pre

EndsWith(s, suf) ==
    Len(s) >= Len(suf) /\ SubSeq(s, Len(s) - Len(suf) + 1, Len(s)) = suf

validate_arguments_lax(g, c, s) ==
    IF s # <<>> /\ ~StartsWith(s, S3Scheme) THEN "Invalid S3 URL"
    ELSE "ok"

\* validate_arguments (the same text in pipeline_generic and ConfigUtils):
\* the message of the ValueError it raises, or "ok"
validate_arguments(g, c, s) ==
    IF g # "" /\ c = "" THEN "--collection-id is required when using --granule-id"
    ELSE IF s # <<>> /\ ~StartsWith(s, S3Scheme) THEN "Invalid S3 URL"
    ELSE "ok"

\* pipeline_generic.detect_input_type: the type, "ValueError", or "None"
detect_input_type(g, s) ==
    IF g # "" /\ g # "none" THEN "daac"
    ELSE IF s # <<>> THEN
        (IF EndsWith(s, ExtNc) \/ EndsWith(s, ExtNc4) THEN "s3_netcdf"
         ELSE IF EndsWith(s, ExtZarr) \/ EndsWith(s, ExtZarrSlash) THEN "s3_zarr"
         ELSE "ValueError")
    ELSE "None"

\* ConfigUtils.detect_input_type
ConfigUtils_detect_input_type(g, s) ==
    IF g # "" /\ g # "none" THEN "daac"
    ELSE IF s # <<>> THEN
        (IF EndsWith(s, ExtNc) \/ EndsWith(s, ExtNc4) THEN "s3_netcdf"
         ELSE IF EndsWith(s, ExtZarr) \/ EndsWith(s, ExtZarrSlash) THEN "s3_zarr"
         ELSE IF EndsWith(s, ExtGpkg) THEN "s3_gpkg"
         ELSE "ValueError")
    ELSE "None"

DetectFor(e, g, s) ==
    IF e = "generic" THEN detect_input_type(g, s)
    ELSE ConfigUtils_detect_input_type(g, s)

valid_steps == <<"stage", "netcdf2zarr", "concat", "zarr2cog", "catalog">>

Range(seq) == {seq[i] : i \in DOMAIN seq}

AllSteps == <<"all">>

NoneSteps == <<"None">>

RaisedSteps == <<"ValueError">>

get_enabled_steps_unchecked(steps, t) ==
    IF steps = AllSteps THEN
        (IF t = "daac" THEN <<"stage", "netcdf2zarr", "concat", "zarr2cog", "catalog">>
         ELSE IF t = "s3_netcdf" THEN <<"netcdf2zarr", "concat", "zarr2cog", "catalog">>
         ELSE IF t = "s3_zarr" THEN <<"zarr2cog", "catalog">>
         ELSE IF t = "s3_gpkg" THEN <<"catalog">>
         ELSE NoneSteps)
    ELSE steps

\* localized_pipeline.get_enabled_steps; steps_arg is given as the names
\* between its commas, each already stripped
get_enabled_steps(steps, t) ==
    IF steps = AllSteps THEN
        (IF t = "daac" THEN <<"stage", "netcdf2zarr", "concat", "zarr2cog", "catalog">>
         ELSE IF t = "s3_netcdf" THEN <<"netcdf2zarr", "concat", "zarr2cog", "catalog">>
         ELSE IF t = "s3_zarr" THEN <<"zarr2cog", "catalog">>
         ELSE IF t = "s3_gpkg" THEN <<"catalog">>
         ELSE NoneSteps)
    ELSE IF \E i \in DOMAIN steps : steps[i] \notin Range(valid_steps) THEN RaisedSteps
    ELSE steps

\* the except clauses of localized_pipeline.main: NotImplementedError is a
\* RuntimeError, and the RuntimeError clause comes first
LocalizedExit(e) ==
    IF e = "ValueError" THEN ExitInvalidArgument
    ELSE IF e \in {"RuntimeError", "NotImplementedError"} THEN ExitRuntimeError
    ELSE ExitGeneric

ArgsExit(e) == IF entry = "generic" THEN GenericExit(e) ELSE LocalizedExit(e)

StepNames == Range(valid_steps) \cup {"bogus"}

StepsArgs ==
    {AllSteps} \cup UNION {[1..n -> StepNames] : n \in 1..MaxSteps}

GranuleIds == {"", "none", "G123"}

\* absent or empty, whitespace only, and a real collection id
CollectionIds == {"", " ", "C456"}

InitArgs ==
    /\ variant = "args"
    /\ remote = "Accepted"
    /\ status = ""
    /\ evt = FALSE
    /\ wpc = "idle"
    /\ polls = 0
    /\ evtSets = 0
    /\ fresh = FALSE
    /\ PollerIdle
    /\ FlowIdle
    /\ ResolveIdle
    /\ MoreIdle
    /\ entry \in {"generic", "localized"}
    /\ granule_id \in GranuleIds
    /\ input_s3 \in InputPaths \cup {<<>>}
    /\ granule_id = "" \/ input_s3 = <<>>
    /\ collection_id \in CollectionIds
    /\ steps_arg \in IF entry = "generic" THEN {AllSteps} ELSE StepsArgs
    /\ enable_concat \in BOOLEAN
    /\ transformers_ok \in IF entry = "generic" THEN {TRUE} ELSE BOOLEAN
    /\ apc = "validate"
    /\ input_type = "None"
    /\ enabled_steps = NoneSteps
    /\ current_output = FALSE
    /\ ran = <<>>
    /\ remoteCalls = 0
    /\ aexit = -1

ArgsRaise(e) ==
    /\ apc' = "exited"
    /\ aexit' = ArgsExit(e)

ArgsInputs == <<entry, granule_id, collection_id, input_s3, steps_arg, enable_concat,
                transformers_ok>>

\* main, first statement of the try block: validate_arguments(args)
ArgsValidate ==
    /\ apc = "validate"
    /\ IF validate_arguments(granule_id, collection_id, input_s3) # "ok"
       THEN ArgsRaise("ValueError")
       ELSE /\ apc' = IF entry = "localized" THEN "transformers" ELSE "detect"
            /\ aexit' = aexit
    /\ UNCHANGED <<ArgsInputs, input_type, enabled_steps, current_output, ran,
                   remoteCalls, pollerVars, flowVars, resolveVars, moreVars>>

\* localized_pipeline.main: validate_transformers_path, a local directory check
ArgsTransformersPath ==
    /\ apc = "transformers"
    /\ IF ~transformers_ok
       THEN ArgsRaise("RuntimeError")
       ELSE /\ apc' = "detect"
            /\ aexit' = aexit
    /\ UNCHANGED <<ArgsInputs, input_type, enabled_steps, current_output, ran,
                   remoteCalls, pollerVars, flowVars, resolveVars, moreVars>>

\* main: input_type = detect_input_type(args)
ArgsDetect ==
    /\ apc = "detect"
    /\ LET t == DetectFor(entry, granule_id, input_s3) IN
       IF t = "ValueError"
       THEN /\ ArgsRaise("ValueError")
            /\ input_type' = input_type
       ELSE /\ input_type' = t
            /\ apc' = IF entry = "localized" THEN "steps" ELSE "maap"
            /\ aexit' = aexit
    /\ UNCHANGED <<ArgsInputs, enabled_steps, current_output, ran, remoteCalls,
                   pollerVars, flowVars, resolveVars, moreVars>>

\* localized_pipeline.main: enabled_steps = get_enabled_steps(args.steps, input_type)
ArgsSteps ==
    /\ apc = "steps"
    /\ LET l == get_enabled_steps(steps_arg, input_type) IN
       IF l = RaisedSteps
       THEN /\ ArgsRaise("ValueError")
            /\ enabled_steps' = enabled_steps
       ELSE /\ enabled_steps' = l
            /\ apc' = "maap"
            /\ aexit' = aexit
    /\ UNCHANGED <<ArgsInputs, input_type, current_output, ran, remoteCalls,
                   pollerVars, flowVars, resolveVars, moreVars>>

\* pipeline_generic.main: get_maap_instance, the first remote call; the stage
\* functions that follow are the subject of SpecFlow
GenericMaap ==
    /\ apc = "maap"
    /\ entry = "generic"
    /\ remoteCalls' = remoteCalls + 1
    /\ \E ok \in BOOLEAN :
         IF ~ok THEN ArgsRaise("RuntimeError")
         ELSE IF input_type = "None"
         THEN /\ apc' = "done"
              /\ aexit' = ExitSuccess
         ELSE /\ apc' = "flow"
              /\ aexit' = aexit
    /\ UNCHANGED <<ArgsInputs, input_type, enabled_steps, current_output, ran,
                   pollerVars, flowVars, resolveVars, moreVars>>

\* localized_pipeline.main: the MAAP client is created only for staging or a
\* GeoPackage input; then main enters the branch of the input type
LocalizedMaap ==
    /\ apc = "maap"
    /\ entry = "localized"
    /\ IF enabled_steps = NoneSteps
       THEN /\ ArgsRaise("TypeError")
            /\ remoteCalls' = remoteCalls
       ELSE IF "stage" \in Range(enabled_steps) \/ input_type = "s3_gpkg"
       THEN /\ remoteCalls' = remoteCalls + 1
            /\ \E ok \in BOOLEAN :
                 IF ~ok THEN ArgsRaise("RuntimeError")
                 ELSE /\ apc' = "branch"
                      /\ aexit' = aexit
       ELSE /\ remoteCalls' = remoteCalls
            /\ apc' = "branch"
            /\ aexit' = aexit
    /\ UNCHANGED <<ArgsInputs, input_type, enabled_steps, current_output, ran,
                   pollerVars, flowVars, resolveVars, moreVars>>

\* localized_pipeline.main, branch of the input type, up to its first stage
LocalizedBranch ==
    /\ apc = "branch"
    /\ IF input_type = "daac"
       THEN IF "stage" \in Range(enabled_steps) \/ "netcdf2zarr" \in Range(enabled_steps)
            THEN ArgsRaise("NotImplementedError")
            ELSE /\ apc' = "done"
                 /\ aexit' = ExitSuccess
       ELSE IF input_type = "None"
       THEN /\ apc' = "done"
            /\ aexit' = ExitSuccess
       ELSE /\ apc' = IF input_type = "s3_netcdf" THEN "netcdf2zarr"
                      ELSE IF input_type = "s3_zarr" THEN "zarr2cog"
                      ELSE "gpkg"
            /\ aexit' = aexit
    /\ UNCHANGED <<ArgsInputs, input_type, enabled_steps, current_output, ran,
                   remoteCalls, pollerVars, flowVars, resolveVars, moreVars>>

\* run_transformer_command: the subprocess ends well or raises RuntimeError
LocalStage(name, next) ==
    \E ok \in BOOLEAN :
      IF ok
      THEN /\ ran' = Append(ran, name)
           /\ apc' = next
           /\ aexit' = aexit
      ELSE /\ ArgsRaise("RuntimeError")
           /\ ran' = ran

\* convert_netcdf_to_zarr_local, if its step is enabled
LocalNetcdf2Zarr ==
    /\ apc = "netcdf2zarr"
    /\ IF "netcdf2zarr" \in Range(enabled_steps)
       THEN /\ LocalStage("netcdf2zarr", "concat")
            /\ current_output' = (apc' = "concat")
       ELSE /\ apc' = "concat"
            /\ UNCHANGED <<aexit, ran, current_output>>
    /\ UNCHANGED <<ArgsInputs, input_type, enabled_steps, remoteCalls, pollerVars,
                   flowVars, resolveVars, moreVars>>

\* concatenate_zarr_local, if enabled, requested and there is something to join
LocalConcat ==
    /\ apc = "concat"
    /\ IF "concat" \in Range(enabled_steps) /\ enable_concat /\ current_output
       THEN LocalStage("concat", "zarr2cog")
       ELSE /\ apc' = "zarr2cog"
            /\ UNCHANGED <<aexit, ran>>
    /\ UNCHANGED <<ArgsInputs, input_type, enabled_steps, current_output,
                   remoteCalls, pollerVars, flowVars, resolveVars, moreVars>>

\* convert_zarr_to_cog_local on the S3 Zarr input or on the current output
LocalZarr2Cog ==
    /\ apc = "zarr2cog"
    /\ IF /\ "zarr2cog" \in Range(enabled_steps)
          /\ (input_type = "s3_zarr" \/ current_output)
       THEN LocalStage("zarr2cog", "catalog")
       ELSE /\ apc' = "catalog"
            /\ UNCHANGED <<aexit, ran>>
    /\ UNCHANGED <<ArgsInputs, input_type, enabled_steps, current_output,
                   remoteCalls, pollerVars, flowVars, resolveVars, moreVars>>

\* submit_catalog_job, which swallows its own failures; then the end of main
LocalCatalog ==
    /\ apc = "catalog"
    /\ IF "catalog" \in Range(enabled_steps)
       THEN /\ ran' = Append(ran, "catalog")
            /\ remoteCalls' = remoteCalls + 1
       ELSE UNCHANGED <<ran, remoteCalls>>
    /\ apc' = "done"
    /\ aexit' = ExitSuccess
    /\ UNCHANGED <<ArgsInputs, input_type, enabled_steps, current_output,
                   pollerVars, flowVars, resolveVars, moreVars>>

\* the GeoPackage branch: download, GeoServer upload, notification
LocalGpkg ==
    /\ apc = "gpkg"
    /\ IF "catalog" \in Range(enabled_steps)
       THEN \E host \in BOOLEAN, upload \in {"success", "no success", "ClientError"} :
              IF ~host
              THEN /\ ArgsRaise("ValueError")
                   /\ UNCHANGED <<ran, remoteCalls>>
              ELSE /\ remoteCalls' = remoteCalls + 1
                   /\ IF upload = "ClientError"
                      THEN /\ ArgsRaise("ClientError")
                           /\ ran' = ran
                      ELSE /\ ran' = IF upload = "success" THEN Append(ran, "catalog")
                                     ELSE ran
                           /\ apc' = "done"
                           /\ aexit' = ExitSuccess
       ELSE /\ apc' = "done"
            /\ aexit' = ExitSuccess
            /\ UNCHANGED <<ran, remoteCalls>>
    /\ UNCHANGED <<ArgsInputs, input_type, enabled_steps, current_output,
                   pollerVars, flowVars, resolveVars, moreVars>>

NextArgs ==
    \/ ArgsValidate
    \/ ArgsTransformersPath
    \/ ArgsDetect
    \/ ArgsSteps
    \/ GenericMaap
    \/ LocalizedMaap
    \/ LocalizedBranch
    \/ LocalNetcdf2Zarr
    \/ LocalConcat
    \/ LocalZarr2Cog
    \/ LocalCatalog
    \/ LocalGpkg

SpecArgs == InitArgs /\ [][NextArgs]_vars

(***************************************************************************)
(* SpecResolve : get_dps_output, the resolution of job handles to storage  *)
(* paths, in its three texts (MaapUtils.get_dps_output, pipeline_generic   *)
(* and pipeline_daac).  A path is a sequence of components, a component a  *)
(* stem and an extension; a result location ends with '/', so that the     *)
(* Prefix filter of the listing selects whole components.                  *)
(***************************************************************************)
MaxHandles == 2        \* handles in the jobs argument

Comp(stem, ext) == [stem |-> stem, ext |-> ext]

Dir(name) == Comp(name, "")

DpsBucket == "dps"

\* the objects of the bucket, in the order a listing returns them
BucketKeys ==
    << <<Dir("out"), Dir("j1"), Comp("a", ".zarr"), Dir("0")>>,
       <<Dir("out"), Dir("j1"), Comp("a", ".zarr"), Dir("1")>>,
       <<Dir("out"), Dir("j1"), Comp("b", ".tif")>>,
       <<Dir("out"), Dir("j2"), Comp("c", ".zarr"), Dir("0")>>,
       <<Dir("out"), Dir("j2"), Comp("d", ".tif")>> >>

Url(scheme, bucket, path) == [scheme |-> scheme, bucket |-> bucket, path |-> path]

NoJobOutput == Url("None", "", <<>>)

HttpResult == Url("http", DpsBucket, <<Dir("out"), Dir("j1")>>)

\* what retrieve_result can give for one handle
ResultLists ==
    { <<>>,
      <<HttpResult>>,
      <<HttpResult, Url("s3", DpsBucket, <<Dir("out"), Dir("j1")>>)>>,
      <<Url("s3", DpsBucket, <<Dir("out"), Dir("j2")>>)>>,
      <<Url("s3", DpsBucket, <<Dir("out")>>)>> }

\* next((path for path in j.retrieve_result() if path.startswith("s3")), None)
RECURSIVE JobOutput(_)
JobOutput(results) ==
    IF results = <<>> THEN NoJobOutput
    ELSE IF Head(results).scheme = "s3" THEN Head(results)
    ELSE JobOutput(Tail(results))

\* dps_bucket.objects.filter(Prefix=path)
RECURSIVE Filter(_, _)
Filter(keys, path) ==
    IF keys = <<>> THEN <<>>
    ELSE IF StartsWith(Head(keys), path) THEN <<Head(keys)>> \o Filter(Tail(keys), path)
    ELSE Filter(Tail(keys), path)

\* os.path.dirname(obj.key)
Dirname(key) == SubSeq(key, 1, Len(key) - 1)

\* str.endswith(file_ext) of a path
PathEndsWith(path, ext) == path # <<>> /\ path[Len(path)].ext = ext

ListAppend(out, x) == Append(out, x)

\* set.add
SetAdd(out, x) == IF \E i \in DOMAIN out : out[i] = x THEN out ELSE Append(out, x)

\* the body of the loop over the listed objects
RECURSIVE CollectObjects(_, _, _, _, _)
CollectObjects(out, objs, bucket, ext, prefixesOnly) ==
    IF objs = <<>> THEN out
    ELSE LET key == Head(objs)
             folder_prefix == Dirname(key)
             next == IF prefixesOnly
                     THEN (IF PathEndsWith(folder_prefix, ext)
                           THEN SetAdd(out, Url("s3", bucket, folder_prefix))
                           ELSE out)
                     ELSE (IF PathEndsWith(key, ext)
                           THEN SetAdd(out, Url("s3", bucket, key))
                           ELSE out)
         IN CollectObjects(next, Tail(objs), bucket, ext, prefixesOnly)

Orderings(S) ==
    {q \in [1..Cardinality(S) -> S] : \A i, j \in 1..Cardinality(S) : i # j => q[i] # q[j]}

InitResolve ==
    /\ variant = "resolve"
    /\ remote = "Accepted"
    /\ status = ""
    /\ evt = FALSE
    /\ wpc = "idle"
    /\ polls = 0
    /\ evtSets = 0
    /\ fresh = FALSE
    /\ PollerIdle
    /\ FlowIdle
    /\ ArgsIdle
    /\ MoreIdle
    /\ rimpl \in {"common", "generic", "daac"}
    /\ rjobs \in UNION {[1..n -> ResultLists] : n \in 0..MaxHandles}
    /\ rext \in {".zarr", ".tif"}
    /\ rprefixes \in BOOLEAN
    /\ rpc = "loop"
    /\ ri = 1
    /\ routput = <<>>

\* one turn of "for job_output in job_outputs"
get_dps_output_handle ==
    /\ rpc = "loop"
    /\ ri <= Len(rjobs)
    /\ LET job_output == JobOutput(rjobs[ri]) IN
       IF job_output = NoJobOutput
       THEN IF rimpl = "daac"
            THEN /\ rpc' = "raised"
                 /\ UNCHANGED <<ri, routput>>
            ELSE /\ ri' = ri + 1
                 /\ UNCHANGED <<rpc, routput>>
       ELSE /\ routput' = CollectObjects(routput, Filter(BucketKeys, job_output.path),
                                         job_output.bucket, rext, rprefixes)
            /\ ri' = ri + 1
            /\ rpc' = rpc
    /\ UNCHANGED <<rimpl, rjobs, rext, rprefixes, pollerVars, flowVars, argVars, moreVars>>

\* return list(output): the members of the set in an order of Python's choosing
get_dps_output_return ==
    /\ rpc = "loop"
    /\ ri > Len(rjobs)
    /\ rpc' = "returned"
    /\ \E order \in Orderings(DOMAIN routput) :
         routput' = [i \in DOMAIN routput |-> routput[order[i]]]
    /\ UNCHANGED <<rimpl, rjobs, rext, rprefixes, ri, pollerVars, flowVars, argVars, moreVars>>

NextResolve ==
    \/ get_dps_output_handle
    \/ get_dps_output_return

SpecResolve == InitResolve /\ [][NextResolve]_vars

(***************************************************************************)
(* SpecParse : parse_s3_path in its three texts (AWSUtils, pipeline_daac,  *)
(* pipeline_netcdf).  The text after "s3://" is the sequence of its        *)
(* segments between slashes.                                               *)
(***************************************************************************)
MaxKey == 2            \* segments of an object key

S3Host == "s3-us-west-2.amazonaws.com:80"

Buckets == {"bucket", "maap-ops-workspace", "s3-archive"}

KeySegments == {"data", "file.nc"}

Keys == UNION {[1..n -> KeySegments] : n \in 0..MaxKey}

\* the text of the URL after "s3://", split at its slashes
PathWithoutPrefix(form, bucket, key) ==
    IF form = "hostname" THEN <<S3Host, bucket>> \o key ELSE <<bucket>> \o key

\* path_without_prefix.startswith(('s3-', 's3.'))
StartsWithS3Host(segs) == segs[1] \in {S3Host, "s3-archive"}

Parsed(bucket, key) == [bucket |-> bucket, key |-> key]

ParseRaised == [bucket |-> "ValueError", key |-> <<>>]

\* AWSUtils.parse_s3_path
AWSUtils_parse_s3_path(segs) ==
    IF StartsWithS3Host(segs)
    THEN (IF Len(segs) = 1 THEN ParseRaised
          ELSE LET remaining_path == Tail(segs) IN
               IF Len(remaining_path) = 1 THEN Parsed(remaining_path[1], <<>>)
               ELSE Parsed(Head(remaining_path), Tail(remaining_path)))
    ELSE (IF Len(segs) = 1 THEN Parsed(segs[1], <<>>)
          ELSE Parsed(Head(segs), Tail(segs)))

\* pipeline_daac.parse_s3_path: s3_path.split("/", 3) needs four parts, the
\* third is taken for the host and dropped
daac_parse_s3_path(segs) ==
    IF Len(segs) < 2 THEN ParseRaised
    ELSE LET key == Tail(segs) IN
         Parsed(Head(key), Tail(key))

\* pipeline_netcdf.parse_s3_path
netcdf_parse_s3_path(segs) ==
    IF Len(segs) = 1 THEN Parsed(segs[1], <<>>)
    ELSE Parsed(Head(segs), Tail(segs))

ParseWith(impl, segs) ==
    IF impl = "common" THEN AWSUtils_parse_s3_path(segs)
    ELSE IF impl = "daac" THEN daac_parse_s3_path(segs)
    ELSE netcdf_parse_s3_path(segs)

InitParse ==
    /\ variant = "parse"
    /\ remote = "Accepted"
    /\ status = ""
    /\ evt = FALSE
    /\ wpc = "idle"
    /\ polls = 0
    /\ evtSets = 0
    /\ fresh = FALSE
    /\ PollerIdle
    /\ FlowIdle
    /\ ArgsIdle
    /\ ResolveIdle
    /\ HrefIdle
    /\ StageIdle
    /\ NotifyIdle
    /\ CatalogIdle
    /\ ErrorIdle
    /\ pimpl \in {"common", "daac", "netcdf"}
    /\ pform \in {"canonical", "hostname"}
    /\ pbucket \in Buckets
    /\ pkey \in Keys
    /\ s3pc = "call"
    /\ presult = <<>>

\* one call of parse_s3_path on the URL
parse_s3_path ==
    /\ s3pc = "call"
    /\ LET r == ParseWith(pimpl, PathWithoutPrefix(pform, pbucket, pkey)) IN
       IF r = ParseRaised
       THEN /\ s3pc' = "raised"
            /\ presult' = presult
       ELSE /\ s3pc' = "returned"
            /\ presult' = <<r.bucket, r.key>>
    /\ UNCHANGED <<pimpl, pform, pbucket, pkey, besidesParse>>

NextParse ==
    \/ parse_s3_path

SpecParse == InitParse /\ [][NextParse]_vars

(***************************************************************************)
(* SpecError : job_error_message in its four texts (MaapUtils,             *)
(* pipeline_generic, pipeline_daac, pipeline_netcdf), applied to a handle  *)
(* whose submission was refused.                                           *)
(***************************************************************************)
NoneDetail == [kind |-> "None"]

\* error_details that is a str: free text, or the text of a JSON value
FreeText == [kind |-> "str", json |-> "invalid", keys |-> {}]

JsonText(type, keys) == [kind |-> "str", json |-> type, keys |-> keys]

\* error_details that is already a dict
DictDetail == [kind |-> "dict"]

ErrorDetails ==
    {NoneDetail, DictDetail, FreeText}
    \cup {JsonText("object", ks) : ks \in SUBSET {"message", "code"}}
    \cup {JsonText(ty, {}) : ty \in {"number", "string", "list", "null", "true"}}

ResponseCodes == {"", "500"}

\* json.loads(text): the type of the value, or JSONDecodeError
JsonLoads(d) == IF d.json = "invalid" THEN "JSONDecodeError" ELSE d.json

\* value["message"]
Subscript(d) ==
    IF JsonLoads(d) = "JSONDecodeError" THEN "JSONDecodeError"
    ELSE IF JsonLoads(d) = "object"
    THEN (IF "message" \in d.keys THEN "message" ELSE "KeyError")
    ELSE "TypeError"

\* job_error_message: the value returned or the exception that leaves it
job_error_message(d, code) ==
    IF d.kind = "str"
    THEN (IF Subscript(d) = "message" THEN [raised |-> FALSE, value |-> "message"]
          ELSE IF Subscript(d) \in {"JSONDecodeError", "KeyError"}
          THEN [raised |-> FALSE, value |-> "error_details"]
          ELSE [raised |-> TRUE, value |-> Subscript(d)])
    ELSE [raised |-> FALSE, value |-> IF code # "" THEN code ELSE "Unknown error"]

InitError ==
    /\ variant = "error"
    /\ remote = "Accepted"
    /\ status = ""
    /\ evt = FALSE
    /\ wpc = "idle"
    /\ polls = 0
    /\ evtSets = 0
    /\ fresh = FALSE
    /\ PollerIdle
    /\ FlowIdle
    /\ ArgsIdle
    /\ ResolveIdle
    /\ HrefIdle
    /\ StageIdle
    /\ NotifyIdle
    /\ CatalogIdle
    /\ ParseIdle
    /\ eimpl \in {"common", "generic", "daac", "netcdf"}
    /\ error_details \in ErrorDetails
    /\ response_code \in ResponseCodes
    /\ epc = "call"
    /\ emessage = ""

\* one call of job_error_message(job); the four texts are the same
job_error_message_call ==
    /\ epc = "call"
    /\ LET r == job_error_message(error_details, response_code) IN
       /\ epc' = IF r.raised THEN "raised" ELSE "returned"
       /\ emessage' = r.value
    /\ UNCHANGED <<eimpl, error_details, response_code, besidesError>>

NextError ==
    \/ job_error_message_call

SpecError == InitError /\ [][NextError]_vars

(***************************************************************************)
(* SpecCatalog : catalog_job.main from the retrieval of the parent job's   *)
(* catalog on: ingest_catalog_to_stac walks the collections, upserts each, *)
(* sends the product notification, and main prints its summary.  Every     *)
(* collection carries one item with one asset.                             *)
(***************************************************************************)
MaxCollections == 2    \* collections in the catalog

CatalogCollectionIds == <<"c1", "c2", "c3", "c4">>

\* what create_stac_items.upsert_collection does for one collection, or an
\* exception while its URIs are collected
UpsertOutcomes == {"upserted", "refused", "raised", "raised_early"}

\* requests.post of LoggingUtils: 200, another status, or an exception
PostOutcomes == {"200", "500", "ConnectionError"}

DropFailure(failed, id) == failed

\* failed_collections.append(collection_id_current)
RecordFailure(failed, id) == Append(failed, id)

\* LoggingUtils.cmss_logger / cmss_product_available: nothing is returned and
\* nothing raised, whatever the request did
LoggingUtilsPost(outcome) == outcome # "200"

InitCatalog ==
    /\ variant = "catalog_ingest"
    /\ remote = "Accepted"
    /\ status = ""
    /\ evt = FALSE
    /\ wpc = "idle"
    /\ polls = 0
    /\ evtSets = 0
    /\ fresh = FALSE
    /\ PollerIdle
    /\ FlowIdle
    /\ ArgsIdle
    /\ ResolveIdle
    /\ HrefIdle
    /\ StageIdle
    /\ NotifyIdle
    /\ ParseIdle
    /\ ErrorIdle
    /\ ccolls \in {SubSeq(CatalogCollectionIds, 1, n) : n \in 0..MaxCollections}
    /\ cargid \in {"c1", "C456"}
    /\ cpc = "fetch"
    /\ ci = 1
    /\ coutcomes = <<>>
    /\ collections_ingested = 0
    /\ failed_collections = <<>>
    /\ ogc_uris = <<>>
    /\ asset_uris = <<>>
    /\ notifications = <<>>
    /\ cnoteFailed = FALSE
    /\ csuccess = FALSE
    /\ cexit = -1

\* main: get_catalog_from_parent_job, process_catalog_items and
\* get_authentication_token; an exception of any of them ends the run
catalog_fetch ==
    /\ cpc = "fetch"
    /\ \E ok \in BOOLEAN, post \in PostOutcomes :
         /\ cnoteFailed' = (cnoteFailed \/ LoggingUtilsPost(post))
         /\ IF ok
            THEN /\ cpc' = "loop"
                 /\ cexit' = cexit
            ELSE /\ cpc' = "exited"
                 /\ cexit' = CatalogExit("Exception")
    /\ UNCHANGED <<ccolls, cargid, ci, coutcomes, collections_ingested,
                   failed_collections, ogc_uris, asset_uris, notifications, csuccess,
                   besidesCatalog>>

\* ingest_catalog_to_stac: one turn of "for coll in collections"
ingest_collection ==
    /\ cpc = "loop"
    /\ ci <= Len(ccolls)
    /\ \E outcome \in UpsertOutcomes, post \in PostOutcomes :
         LET collection_id_current == ccolls[ci] IN
         /\ coutcomes' = Append(coutcomes, outcome)
         /\ ogc_uris' = IF outcome = "raised_early" THEN ogc_uris
                        ELSE Append(ogc_uris, collection_id_current)
         /\ asset_uris' = IF outcome = "raised_early" THEN asset_uris
                          ELSE SetAdd(asset_uris, collection_id_current)
         /\ IF outcome = "upserted"
            THEN /\ collections_ingested' = collections_ingested + 1
                 /\ failed_collections' = failed_collections
                 /\ cnoteFailed' = (cnoteFailed \/ LoggingUtilsPost(post))
            ELSE /\ collections_ingested' = collections_ingested
                 /\ failed_collections' = RecordFailure(failed_collections,
                                                        collection_id_current)
                 /\ cnoteFailed' = cnoteFailed
    /\ ci' = ci + 1
    /\ UNCHANGED <<ccolls, cargid, cpc, notifications, csuccess, cexit, besidesCatalog>>

\* ingest_catalog_to_stac after the walk: the product notification, the log
\* message, and the results it returns
ingest_notify ==
    /\ cpc = "loop"
    /\ ci > Len(ccolls)
    /\ notifications' = Append(notifications,
                               [concept_id |-> cargid, ogc |-> ogc_uris, uris |-> asset_uris])
    /\ \E product \in PostOutcomes, log \in PostOutcomes :
         cnoteFailed' = (cnoteFailed \/ LoggingUtilsPost(product) \/ LoggingUtilsPost(log))
    /\ cpc' = "returned"
    /\ UNCHANGED <<ccolls, cargid, ci, coutcomes, collections_ingested,
                   failed_collections, ogc_uris, asset_uris, csuccess, cexit,
                   besidesCatalog>>

\* main: the summary, "Catalog job completed successfully", and the normal end
catalog_summary ==
    /\ cpc = "returned"
    /\ \E post \in PostOutcomes : cnoteFailed' = (cnoteFailed \/ LoggingUtilsPost(post))
    /\ csuccess' = TRUE
    /\ cpc' = "done"
    /\ cexit' = ExitSuccess
    /\ UNCHANGED <<ccolls, cargid, ci, coutcomes, collections_ingested,
                   failed_collections, ogc_uris, asset_uris, notifications,
                   besidesCatalog>>

NextCatalog ==
    \/ catalog_fetch
    \/ ingest_collection
    \/ ingest_notify
    \/ catalog_summary

SpecCatalog == InitCatalog /\ [][NextCatalog]_vars

(***************************************************************************)
(* SpecNotify : a pipeline run whose own steps all succeed, seen through   *)
(* the requests it sends to the notification service: one log message per  *)
(* stage, then the product notification and the closing log message of the *)
(* cataloging stage.                                                       *)
(***************************************************************************)
MaxStages == 2    \* stages before cataloging that send a log message

NotifyImpls == {"LoggingUtils", "pipeline_generic", "pipeline_daac"}

\* the calls of a run with n stages before cataloging
NotificationPoints(n) == [i \in 1..n |-> "log"] \o <<"product", "log">>

\* LoggingUtils wraps requests.post in try / except Exception
Guarded(outcome) == "returned"

\* pipeline_generic and pipeline_daac call requests.post bare: a status other
\* than 200 is ignored, an exception of requests leaves the function
Bare(outcome) == IF outcome = "ConnectionError" THEN "raised" ELSE "returned"

\* cmss_logger and cmss_product_available of the implementation in use
CmssPost(impl, outcome) ==
    IF impl = "LoggingUtils" THEN Guarded(outcome) ELSE Bare(outcome)

InitNotify ==
    /\ variant = "notify"
    /\ remote = "Accepted"
    /\ status = ""
    /\ evt = FALSE
    /\ wpc = "idle"
    /\ polls = 0
    /\ evtSets = 0
    /\ fresh = FALSE
    /\ PollerIdle
    /\ FlowIdle
    /\ ArgsIdle
    /\ ResolveIdle
    /\ HrefIdle
    /\ StageIdle
    /\ ParseIdle
    /\ ErrorIdle
    /\ CatalogIdle
    /\ nimpl \in NotifyImpls
    /\ npoints \in {NotificationPoints(n) : n \in 1..MaxStages}
    /\ ni = 1
    /\ nposts = <<>>
    /\ npc = "running"
    /\ nexit = -1

\* one cmss_logger(...) call of a stage
cmss_logger ==
    /\ npc = "running"
    /\ ni <= Len(npoints)
    /\ npoints[ni] = "log"
    /\ \E outcome \in PostOutcomes :
         /\ nposts' = Append(nposts, outcome)
         /\ IF CmssPost(nimpl, outcome) = "raised"
            THEN /\ npc' = "exited"
                 /\ nexit' = GenericExit("Exception")
                 /\ ni' = ni
            ELSE /\ npc' = npc
                 /\ nexit' = nexit
                 /\ ni' = ni + 1
    /\ UNCHANGED <<nimpl, npoints, besidesNotify>>

\* the cmss_product_available(...) call of the cataloging stage
cmss_product_available ==
    /\ npc = "running"
    /\ ni <= Len(npoints)
    /\ npoints[ni] = "product"
    /\ \E outcome \in PostOutcomes :
         /\ nposts' = Append(nposts, outcome)
         /\ IF CmssPost(nimpl, outcome) = "raised"
            THEN /\ npc' = "exited"
                 /\ nexit' = GenericExit("Exception")
                 /\ ni' = ni
            ELSE /\ npc' = npc
                 /\ nexit' = nexit
                 /\ ni' = ni + 1
    /\ UNCHANGED <<nimpl, npoints, besidesNotify>>

\* main after the last stage: the success message and the normal end
notify_end ==
    /\ npc = "running"
    /\ ni > Len(npoints)
    /\ npc' = "done"
    /\ nexit' = ExitSuccess
    /\ UNCHANGED <<nimpl, npoints, ni, nposts, besidesNotify>>

NextNotify ==
    \/ cmss_logger
    \/ cmss_product_available
    \/ notify_end

SpecNotify == InitNotify /\ [][NextNotify]_vars

(***************************************************************************)
(* SpecStage : main of stage_from_ftp and of stage_from_daac: S3 client,   *)
(* download, upload, the except clause that ends the run, and the finally  *)
(* clause that decides about the local files.                              *)
(***************************************************************************)
MaxFiles == 2    \* files the FTP search finds

StageScripts == {"stage_from_ftp", "stage_from_daac"}

\* os.path.exists / os.path.isdir of --local-download-path
LocalPaths == {"absent", "directory", "file"}

\* the sys.exit code of the except clause that catches e
StageExit(e) ==
    CASE e \in {"FtpFileNotFoundError", "GranuleNotFoundError"} -> 2
      [] e = "DownloadError" -> 3
      [] e = "UploadError" -> 4
      [] e = "FileNotFoundError" -> 5
      [] e = "ValueError" -> ExitInvalidArgument
      [] e = "RuntimeError" -> ExitRuntimeError
      [] OTHER -> ExitGeneric

\* the files of 1..n in ascending order
Ascending(S) == [i \in 1..Cardinality(S) |-> CHOOSE x \in S : Cardinality({y \in S : y <= x}) = i]

\* search_and_download_ftp_files: the files it fetches, those with a
\* previous upload being skipped unless overwrite_existing
ToDownload == IF script = "stage_from_ftp" /\ ~overwrite_existing
              THEN (1..sfiles) \ sexisting
              ELSE 1..sfiles

\* sys.exc_info()[1] inside finally: sys.exit() in the except clause has
\* replaced the caught exception by SystemExit
ExcInfo(raised) == IF raised = "" THEN "" ELSE "SystemExit"

\* stage_from_ftp's finally: cleanup_local_files unless an UploadError is current
FtpCleanup(paths, cur) == paths # <<>> /\ cur # "UploadError"

\* stage_from_daac's finally: only a warning, no branch removes the file
DaacCleanup(paths, cur) == FALSE

Cleanup(paths, cur) ==
    IF script = "stage_from_ftp" THEN FtpCleanup(paths, cur) ELSE DaacCleanup(paths, cur)

InitStage ==
    /\ variant = "stage"
    /\ remote = "Accepted"
    /\ status = ""
    /\ evt = FALSE
    /\ wpc = "idle"
    /\ polls = 0
    /\ evtSets = 0
    /\ fresh = FALSE
    /\ PollerIdle
    /\ FlowIdle
    /\ ArgsIdle
    /\ ResolveIdle
    /\ HrefIdle
    /\ ParseIdle
    /\ ErrorIdle
    /\ CatalogIdle
    /\ NotifyIdle
    /\ script \in StageScripts
    /\ local_download_path \in LocalPaths
    /\ IF script = "stage_from_ftp"
       THEN /\ sfiles \in 1..MaxFiles
            /\ overwrite_existing \in BOOLEAN
            /\ sexisting \in SUBSET (1..sfiles)
            /\ spc = "client"
       ELSE /\ sfiles = 1
            /\ overwrite_existing = FALSE
            /\ sexisting = {}
            /\ spc = "download"
    /\ slocal = {}
    /\ downloaded_file_paths = <<>>
    /\ suploaded = {}
    /\ sraised = ""
    /\ current_exception = ""
    /\ sexit = -1

StageRaise(e) ==
    /\ sraised' = e
    /\ spc' = "except"

\* get_s3_client: UploadError when the role cannot be assumed
stage_s3_client ==
    /\ spc = "client"
    /\ \E ok \in BOOLEAN :
         IF ok
         THEN /\ spc' = IF script = "stage_from_ftp" THEN "download" ELSE "upload"
              /\ sraised' = sraised
         ELSE StageRaise("UploadError")
    /\ UNCHANGED <<script, sfiles, overwrite_existing, local_download_path, sexisting, slocal,
                   downloaded_file_paths, suploaded, current_exception, sexit,
                   besidesStage>>

\* search_and_download_ftp_files / search_and_download_granule: what leaves
\* the function when e is raised inside its try
DownloadRaises(e) ==
    IF e \in {"FtpFileNotFoundError", "GranuleNotFoundError"} THEN e
    ELSE "DownloadError"

\* get_maap_instance and search_and_download_granule /
\* search_and_download_ftp_files: the search, the check of the local path,
\* then the downloads; the paths reach main only on return
stage_download ==
    /\ spc = "download"
    /\ \/ /\ script = "stage_from_daac"
          /\ StageRaise("RuntimeError")
          /\ UNCHANGED <<slocal, downloaded_file_paths>>
       \/ /\ StageRaise(DownloadRaises(IF script = "stage_from_ftp"
                                       THEN "FtpFileNotFoundError"
                                       ELSE "GranuleNotFoundError"))
          /\ UNCHANGED <<slocal, downloaded_file_paths>>
       \/ /\ local_download_path = "file"
          /\ StageRaise(DownloadRaises("ValueError"))
          /\ UNCHANGED <<slocal, downloaded_file_paths>>
       \/ /\ local_download_path # "file"
          /\ \E k \in 0..Cardinality(ToDownload) :
               LET got == {Ascending(ToDownload)[i] : i \in 1..k} IN
               /\ slocal' = got
               /\ IF k = Cardinality(ToDownload) /\ (script = "stage_from_ftp" \/ k > 0)
                  THEN /\ downloaded_file_paths' = Ascending(got)
                       /\ spc' = IF script = "stage_from_ftp" THEN "upload" ELSE "client"
                       /\ sraised' = sraised
                  ELSE /\ downloaded_file_paths' = downloaded_file_paths
                       /\ StageRaise(DownloadRaises("DownloadError"))
    /\ UNCHANGED <<script, sfiles, overwrite_existing, local_download_path, sexisting,
                   suploaded, current_exception, sexit, besidesStage>>

\* upload_to_s3: file by file, the first failure leaves the function
stage_upload ==
    /\ spc = "upload"
    /\ \/ /\ suploaded' = Range(downloaded_file_paths)
          /\ sraised' = sraised
          /\ spc' = "finally"
       \/ \E j \in DOMAIN downloaded_file_paths, e \in {"UploadError", "FileNotFoundError"} :
            /\ suploaded' = {downloaded_file_paths[i] : i \in 1..(j - 1)}
            /\ StageRaise(e)
    /\ UNCHANGED <<script, sfiles, overwrite_existing, local_download_path, sexisting, slocal,
                   downloaded_file_paths, current_exception, sexit, besidesStage>>

\* the except clause that matches: sys.exit(code)
stage_except ==
    /\ spc = "except"
    /\ sexit' = StageExit(sraised)
    /\ spc' = "finally"
    /\ UNCHANGED <<script, sfiles, overwrite_existing, local_download_path, sexisting, slocal,
                   downloaded_file_paths, suploaded, sraised, current_exception,
                   besidesStage>>

\* the finally clause, then the end of the process
stage_finally ==
    /\ spc = "finally"
    /\ current_exception' = ExcInfo(sraised)
    /\ slocal' = IF Cleanup(downloaded_file_paths, ExcInfo(sraised))
                 THEN slocal \ Range(downloaded_file_paths)
                 ELSE slocal
    /\ sexit' = IF sraised = "" THEN ExitSuccess ELSE sexit
    /\ spc' = "exited"
    /\ UNCHANGED <<script, sfiles, overwrite_existing, local_download_path, sexisting,
                   downloaded_file_paths, suploaded, sraised, besidesStage>>

NextStaging ==
    \/ stage_s3_client
    \/ stage_download
    \/ stage_upload
    \/ stage_except
    \/ stage_finally

SpecStage == InitStage /\ [][NextStaging]_vars

(***************************************************************************)
(* SpecHref : process_catalog_items over the assets of a catalog.  A URL   *)
(* is its scheme, the labels of its host between dots, and the segments of *)
(* its path between slashes, each segment again a sequence of labels.      *)
(***************************************************************************)
MaxAssets == 2    \* assets in the catalog

HrefForms == {"path", "virtual", "regional", "http_virtual", "s3uri", "other"}

HrefBuckets == {<<"bucket">>, <<"my", "bucket">>}

HrefKeys == {<<<<"key">>>>, <<<<"dir">>, <<"file", "s3", "nc">>>>}

Href(scheme, host, path) == [scheme |-> scheme, host |-> host, path |-> path]

NoneHref == Href("None", <<>>, <<>>)

\* the URL of object key in bucket, written in the given form
HrefOf(form, bucket, key) ==
    CASE form = "path" -> Href("https", <<"s3", "amazonaws", "com">>, <<bucket>> \o key)
      [] form = "virtual" -> Href("https", bucket \o <<"s3", "amazonaws", "com">>, key)
      [] form = "regional" ->
            Href("https", bucket \o <<"s3", "us-west-2", "amazonaws", "com">>, key)
      [] form = "http_virtual" -> Href("http", bucket \o <<"s3", "amazonaws", "com">>, key)
      [] form = "s3uri" -> Href("s3", bucket, key)
      [] OTHER -> Href("https", <<"example", "com">>, key)

Hrefs == {HrefOf(f, b, k) : f \in HrefForms, b \in HrefBuckets, k \in HrefKeys}

\* ".s3." in one dotted name
DotS3Dot(labels) == \E i \in 2..(Len(labels) - 1) : labels[i] = "s3"

\* ".s3." in asset.href
ContainsDotS3Dot(h) == DotS3Dot(h.host) \/ \E i \in DOMAIN h.path : DotS3Dot(h.path[i])

\* re.match(r"https?://s3\.amazonaws\.com/([^/]+)/(.*)", link)
MatchPathStyle(h) ==
    /\ h.scheme \in {"http", "https"}
    /\ h.host = <<"s3", "amazonaws", "com">>
    /\ Len(h.path) >= 2

\* re.match(r"https?://([^.]+)\.s3\.amazonaws\.com/(.*)", link)
MatchVirtualHostedStyle(h) ==
    /\ h.scheme \in {"http", "https"}
    /\ Len(h.host) = 4
    /\ SubSeq(h.host, 2, 4) = <<"s3", "amazonaws", "com">>

\* AWSUtils.convert_s3_http_to_s3_uri
convert_s3_http_to_s3_uri(h) ==
    IF MatchPathStyle(h) THEN Href("s3", h.path[1], Tail(h.path))
    ELSE IF MatchVirtualHostedStyle(h) THEN Href("s3", <<h.host[1]>>, h.path)
    ELSE NoneHref

\* the body of "for _, asset in item.assets.items()"
ProcessAsset(h) ==
    IF h.scheme = "https" /\ ContainsDotS3Dot(h) THEN convert_s3_http_to_s3_uri(h) ELSE h

InitHref ==
    /\ variant = "href"
    /\ remote = "Accepted"
    /\ status = ""
    /\ evt = FALSE
    /\ wpc = "idle"
    /\ polls = 0
    /\ evtSets = 0
    /\ fresh = FALSE
    /\ PollerIdle
    /\ FlowIdle
    /\ ArgsIdle
    /\ ResolveIdle
    /\ ParseIdle
    /\ ErrorIdle
    /\ CatalogIdle
    /\ NotifyIdle
    /\ StageIdle
    /\ \E n \in 1..MaxAssets : assets \in [1..n -> Hrefs]
    /\ hrefs = assets
    /\ hi = 1
    /\ hpc = "loop"

\* process_catalog_items: one asset
process_asset ==
    /\ hpc = "loop"
    /\ hi <= Len(hrefs)
    /\ hrefs' = [hrefs EXCEPT ![hi] = ProcessAsset(hrefs[hi])]
    /\ hi' = hi + 1
    /\ UNCHANGED <<assets, hpc, besidesHref>>

\* process_catalog_items: the statistics are returned
process_catalog_items ==
    /\ hpc = "loop"
    /\ hi > Len(hrefs)
    /\ hpc' = "returned"
    /\ UNCHANGED <<assets, hrefs, hi, besidesHref>>

NextHref ==
    \/ process_asset
    \/ process_catalog_items

SpecHref == InitHref /\ [][NextHref]_vars








(***************************************************************************)
(* Claims about the completion pollers, checked under Spec.                *)
(***************************************************************************)

\* What the specification's status model asks of the poller for a status.
Expected(s) ==
    IF s \in NonTerminals THEN "continue"
    ELSE IF s = "Succeeded" THEN "succeed"
    ELSE IF s \in FailureTerminals THEN "fail"
    ELSE "continue"

\* C1: once a refresh has returned Failed, Deleted or Revoked, the poller has
\* signalled failure to its caller (it neither returned the handle nor went on),
\* and no refresh and no backoff sleep followed that observation.
C1_FailureStopsPolling ==
    failObserved => (ppc = "raised" /\ ~afterFail)

\* C2: every observed status selects exactly the outcome of the status model:
\* Accepted/Running and unrecognized values continue polling, Succeeded succeeds,
\* Failed/Deleted/Revoked fail (give-ups on max_time set aside).
C2_ClassificationMatches ==
    (decision \in {"continue", "succeed", "fail"} /\ ~timedOut)
        => decision = Expected(remote)

\* The cap the run was configured with.
ConfiguredCap ==
    IF variant = "catalog" THEN maxBackoff ELSE DecoratorMaxValue

\* C3: over consecutive non-terminal polls each sleep interval is at least the
\* previous one, and no sleep interval exceeds the configured cap.
C3_BackoffMonotoneCapped ==
    [][nsleeps' = nsleeps + 1 =>
          /\ wait' <= ConfiguredCap
          /\ (decision = "continue" /\ decision' = "continue"
              /\ remote \notin Terminals /\ remote' \notin Terminals /\ nsleeps >= 1)
                => wait' >= wait]_vars

RaisedOnRunning(v) ==
    IF v = "catalog" THEN wait_for_parent_completion("Running")
    ELSE wait_for_completion("Running")

\* C5: when the run ends on a failure terminal status reported by the executor,
\* its exit differs from the exit of a give-up on max_time with the job running.
C5_TimeoutDistinctFromJobFailed ==
    (ppc = "raised" /\ decision = "fail" /\ remote \in FailureTerminals)
        => exitCode # ExitOf(variant, RaisedOnRunning(variant))

\* C6: a refresh that follows another refresh with the remote status unchanged
\* in between returns the same status and changes no other field of the handle;
\* it does not set status_changed again (checked under SpecHandle).
C6_IdempotentRefresh ==
    [][(polls' = polls + 1 /\ fresh) =>
          (status' = status /\ evt' = evt /\ evtSets' = evtSets /\ wpc' = wpc)]_vars

(***************************************************************************)
(* Claims about a pipeline run, checked under SpecFlow.                    *)
(***************************************************************************)

\* C7: once a job has been seen in a failure terminal status (or the wait for
\* it has failed), the run submits no further job and does not perform the
\* cataloging step.
C7_StageFailureAborts ==
    [][failedSeen => (Len(jobs') = Len(jobs) /\ cataloged' = cataloged)]_vars

AcceptedOf(stage) == {j \in JobsOf(stage) : jobs[j].ok}

RejectedOf(stage) == {j \in JobsOf(stage) : ~jobs[j].ok}

\* C8: in a stage that awaits several jobs, the output of an awaited job is
\* resolved, or a job of a later stage is submitted, only when every awaited
\* job of the stage has been observed in a terminal status.
C8_FanOutJoin ==
    \A j \in 1..Len(jobs) :
        ( /\ jobs[j].ok
          /\ Cardinality(AcceptedOf(jobs[j].stage)) >= 2
          /\ \/ AcceptedOf(jobs[j].stage) \cap resolved # {}
             \/ \E k \in 1..Len(jobs) : k > j /\ jobs[k].stage # jobs[j].stage )
        => jobs[j].st \in Terminals

\* C9: when the Zarr-to-COG stage had some submissions rejected and at least
\* one accepted, it awaited and returned exactly the accepted jobs, the TIFF
\* list comes from accepted jobs only, and no rejected handle was polled or
\* passed to output resolution.
C9_PartialFanOutKeepsAccepted ==
    ( /\ cogOutcome = "returned"
      /\ RejectedOf("zarr2cog") # {}
      /\ AcceptedOf("zarr2cog") # {} )
    => /\ awaited = AcceptedOf("zarr2cog")
       /\ stageOut = AcceptedOf("zarr2cog")
       /\ tifs \subseteq AcceptedOf("zarr2cog")
       /\ \A j \in RejectedOf("zarr2cog") : jobs[j].st = "none" /\ j \notin resolved

\* C10: a Zarr-to-COG stage invocation that ends with an empty awaited set
\* (every submission rejected, or nothing to submit) ends with the
\* no-jobs-submitted RuntimeError and does not return a job list.
C10_EmptyAwaitedSetFails ==
    (cogOutcome # "none" /\ AcceptedOf("zarr2cog") = {})
    => cogOutcome = "RuntimeError"

\* the input type the detection table prescribes for a granule id or S3 path
ExpectedInputType(g, s) ==
    IF g # "" THEN "daac"
    ELSE IF EndsWith(s, ExtNc) \/ EndsWith(s, ExtNc4) THEN "s3_netcdf"
    ELSE IF EndsWith(s, ExtZarr) \/ EndsWith(s, ExtZarrSlash) THEN "s3_zarr"
    ELSE IF EndsWith(s, ExtGpkg) THEN "s3_gpkg"
    ELSE "ValueError"

PastDetect ==
    {"steps", "maap", "flow", "branch", "netcdf2zarr", "concat", "zarr2cog", "catalog",
     "gpkg", "done"}

\* C11: once detection has run on a real granule id or an S3 URL, the input
\* type is the one the table prescribes (granule id -> daac; .nc/.nc4 ->
\* s3_netcdf; .zarr/.zarr/ -> s3_zarr; .gpkg -> s3_gpkg), and a run is refused
\* at detection only for an S3 path with none of these endings.
C11_InputTypeDetection ==
    LET given == granule_id \notin {"", "none"} \/ input_s3 # <<>>
        valid == validate_arguments(granule_id, collection_id, input_s3) = "ok"
        want == ExpectedInputType(granule_id, input_s3)
    IN  /\ (apc \in PastDetect /\ given) => input_type = want
        /\ (given /\ valid /\ transformers_ok /\ want # "ValueError")
             => ~(apc = "exited" /\ input_type = "None")

HasInvalidStep ==
    steps_arg # AllSteps /\ \E i \in DOMAIN steps_arg : steps_arg[i] \notin Range(valid_steps)

\* position of a step in the canonical order
StepIndex(name) == CHOOSE i \in DOMAIN valid_steps : valid_steps[i] = name

\* the first step that makes sense for an input type
EntryPoint(t) ==
    IF t = "daac" THEN "stage"
    ELSE IF t = "s3_netcdf" THEN "netcdf2zarr"
    ELSE IF t = "s3_zarr" THEN "zarr2cog"
    ELSE "catalog"

ValidFor(t) == {n \in Range(valid_steps) : StepIndex(n) >= StepIndex(EntryPoint(t))}

InputTypes == {"daac", "s3_netcdf", "s3_zarr", "s3_gpkg"}

\* C13: the default selection of each input type holds only steps valid for the
\* type, and a run given an explicit list with an unknown name never gets past
\* step selection: it makes no remote call, runs no stage and ends with the
\* invalid-argument exit (the runtime-error exit only when the transformers
\* directory is unusable, which is checked first).
C13_StageListValidity ==
    /\ \A t \in InputTypes : Range(get_enabled_steps(AllSteps, t)) \subseteq ValidFor(t)
    /\ (steps_arg = AllSteps /\ enabled_steps # NoneSteps)
         => Range(enabled_steps) \subseteq ValidFor(input_type)
    /\ HasInvalidStep
         => /\ remoteCalls = 0
            /\ ran = <<>>
            /\ enabled_steps = NoneSteps
            /\ apc \in {"validate", "transformers", "detect", "steps", "exited"}
            /\ apc = "exited" => aexit \in {ExitInvalidArgument, ExitRuntimeError}
            /\ (apc = "exited" /\ transformers_ok) => aexit = ExitInvalidArgument

C13_Witness ==
    /\ HasInvalidStep
    /\ "stage" \in Range(steps_arg)
    /\ input_type = "s3_zarr"
    /\ apc = "exited"
    /\ aexit = ExitInvalidArgument
    /\ remoteCalls = 0

IsSubsequence(l, canon) ==
    /\ \A i \in DOMAIN l : l[i] \in Range(canon)
    /\ \A i, j \in DOMAIN l : i < j => StepIndex(l[i]) < StepIndex(l[j])

\* C14: the enabled step list is a subsequence of the canonical order, without
\* duplicates or reordering, and holds no step before the entry point of the
\* detected input type.
C14_EnabledStepsCanonical ==
    (enabled_steps # NoneSteps /\ input_type \in InputTypes)
    => /\ IsSubsequence(enabled_steps, valid_steps)
       /\ Range(enabled_steps) \subseteq ValidFor(input_type)

\* C15: an S3 NetCDF input with the default selection and no enable-concat flag
\* has exactly the steps netcdf2zarr, zarr2cog, catalog enabled.
C15_DefaultNetcdfSteps ==
    (input_type = "s3_netcdf" /\ steps_arg = AllSteps /\ ~enable_concat
        /\ enabled_steps # NoneSteps)
    => enabled_steps = <<"netcdf2zarr", "zarr2cog", "catalog">>

\* C16: in pipeline_generic, pipeline_daac and pipeline_netcdf a concatenation
\* job is submitted only when concatenation was explicitly enabled, and
\* without it the Zarr-to-COG stage starts from the NetCDF-to-Zarr job.
C16_ConcatOnlyWhenEnabled ==
    pipeline \in {"generic", "daac", "netcdf"}
    => /\ JobsOf("concat") # {} => enableConcat
       /\ (~enableConcat /\ curStage = "zarr2cog" /\ zarrJob # 0)
            => jobs[zarrJob].stage = "netcdf2zarr"

\* C17: every manifest a submitJob call has named in zarr_manifest was
\* uploaded, under exactly that bucket and key, before the call.
C17_ManifestUploadedBeforeSubmit ==
    /\ \A r \in manifestRefs : \E u \in uploaded : u.obj = r
    /\ JobsOf("concat") # {} => manifestRefs # {}

C17_Witness ==
    /\ pipeline = "daac"
    /\ Cardinality(manifestRefs) = 2
    /\ Cardinality(JobsOf("concat")) = 2
    /\ \A r \in manifestRefs : \E u \in uploaded : u.obj = r

\* C18: the manifest named by a submitted concatenation job lists at least one
\* Zarr store.
C18_ManifestNeverEmpty ==
    \A r \in manifestRefs : \A u \in uploaded : u.obj = r => u.urls > 0

\* the storage paths the handles' listings match
MatchingPaths ==
    LET Candidate(k) == IF rprefixes THEN Dirname(BucketKeys[k]) ELSE BucketKeys[k]
        Matches == {x \in (DOMAIN rjobs) \X (DOMAIN BucketKeys) :
                      /\ JobOutput(rjobs[x[1]]) # NoJobOutput
                      /\ StartsWith(BucketKeys[x[2]], JobOutput(rjobs[x[1]]).path)
                      /\ PathEndsWith(Candidate(x[2]), rext)}
    IN {Url("s3", JobOutput(rjobs[x[1]]).bucket, Candidate(x[2])) : x \in Matches}

\* C19: the list get_dps_output returns holds every matching storage path
\* exactly once, in key mode and in parent-prefix mode, whatever the overlap
\* between the handles' result prefixes.
C19_ResolutionDeduplicates ==
    rpc = "returned"
    => /\ \A i, j \in DOMAIN routput : i # j => routput[i] # routput[j]
       /\ Range(routput) = MatchingPaths

C19_Witness ==
    /\ rpc = "returned"
    /\ rprefixes
    /\ Len(rjobs) = 2
    /\ rjobs[1] = rjobs[2]
    /\ Len(routput) = 2

\* C20: a handle without a result path starting with 's3' is skipped and
\* raises nothing, and a list of only such handles resolves to the empty list.
C20_HandlesWithoutLocationSkipped ==
    /\ rpc # "raised"
    /\ (rpc = "returned" /\ \A h \in DOMAIN rjobs : JobOutput(rjobs[h]) = NoJobOutput)
         => routput = <<>>

\* C21: parse_s3_path gives back the bucket and the key the URL was built
\* from, for the canonical form and for the hostname-prefixed form.
C21_ParseRoundTrip ==
    (s3pc \in {"returned", "raised"} /\ pkey # <<>>)
    => (s3pc = "returned" /\ presult = <<pbucket, pkey>>)

\* C22: job_error_message returns a message and raises nothing, whatever the
\* error detail of the handle is.
C22_ErrorMessageNeverRaises ==
    epc # "raised"

\* C23: a localized run that stops because DAAC staging or the conversion of
\* staged files is not implemented exits with the not-implemented code.  (A
\* DAAC run whose steps hold netcdf2zarr but not stage creates no MAAP client,
\* so that NotImplementedError is the only way for it to stop.)
C23_NotImplementedExit ==
    (/\ entry = "localized"
     /\ input_type = "daac"
     /\ enabled_steps # NoneSteps
     /\ "netcdf2zarr" \in Range(enabled_steps)
     /\ "stage" \notin Range(enabled_steps)
     /\ apc = "exited")
    => aexit = ExitNotImplemented

\* the code the specification reserves for a failed remote job
ExitJobFailed == 5

\* C24: a run that ends because the remote job reported a failure terminal
\* status exits with the job-failed code, which is none of the codes for an
\* invalid argument, a runtime error or a generic error (checked under Spec).
C24_JobFailureExitCode ==
    (ppc = "raised" /\ decision = "fail" /\ remote \in FailureTerminals)
        => /\ exitCode = ExitJobFailed
           /\ exitCode \notin {ExitInvalidArgument, ExitRuntimeError, ExitGeneric}

\* C25: a catalog job in which the upsert of at least one collection failed
\* does not print the success message and does not exit with status 0.
C25_NoPartialSuccess ==
    (cpc = "done" /\ failed_collections # <<>>)
    => (~csuccess /\ cexit # ExitSuccess)

\* the collections whose upsert did not succeed, by the history of the walk
FailedByHistory == {ccolls[i] : i \in {k \in DOMAIN coutcomes : coutcomes[k] # "upserted"}}

\* C26: a collection whose upsert failed or raised is in the failure list once,
\* the walk goes on to every sibling, and collections_ingested plus the number
\* of failed collections is the number of collections walked.
C26_PartialFailureTolerance ==
    /\ cpc = "loop" => Len(coutcomes) = ci - 1
    /\ cpc \in {"returned", "done"} => Len(coutcomes) = Len(ccolls)
    /\ collections_ingested + Len(failed_collections) = Len(coutcomes)
    /\ Range(failed_collections) = FailedByHistory
    /\ \A i, j \in DOMAIN failed_collections :
          i # j => failed_collections[i] # failed_collections[j]

C26_Witness ==
    /\ cpc = "done"
    /\ coutcomes = <<"raised", "upserted">>
    /\ failed_collections = <<"c1">>
    /\ collections_ingested = 1

\* C27: once cataloging has returned, one product-available notification was
\* sent for each collection processed, with that collection's id and the URIs
\* generated for it.
C27_NotificationPerCollection ==
    (cpc \in {"returned", "done"} /\ ccolls # <<>> /\ cargid = ccolls[1])
    => /\ Len(notifications) = Len(ccolls)
       /\ \A i \in DOMAIN notifications :
            /\ notifications[i].concept_id = ccolls[i]
            /\ Range(notifications[i].ogc) \subseteq {ccolls[i]}
            /\ Range(notifications[i].uris) \subseteq {ccolls[i]}

\* C28: a request to the notification service that fails, by an exception or
\* by a status other than 200, does not end the run and leaves its exit code
\* as it is without the failure.
C28_NotificationsBestEffort ==
    (\E i \in DOMAIN nposts : nposts[i] # "200")
    => /\ npc # "exited"
       /\ nexit \in {-1, ExitSuccess}

\* C29: when a staging script that downloaded every file it wanted, at least
\* one, has exited, the local files are all still there if the S3 upload
\* failed, and are all gone otherwise.
C29_CleanupOnExit ==
    (spc = "exited" /\ downloaded_file_paths # <<>>)
    => IF sraised = "UploadError"
       THEN slocal = Range(downloaded_file_paths)
       ELSE slocal = {}

\* C30: once the NetCDF-to-Zarr stage has found N >= 1 NetCDF files in the
\* staging output and submitted, it has submitted one conversion job per file.
C30_FanOutCoverage ==
    ncFound >= 1 => Cardinality(JobsOf("netcdf2zarr")) = ncFound

\* the output names of the submissions of one fan-out stage
OutputsOf(stage) == {i \in DOMAIN outputs : outputs[i].stage = stage}

HealthyBeforeCatalog ==
    /\ fpc = "submit"
    /\ curStage = "catalog"
    /\ cogOutcome = "returned"
    /\ jobs # <<>>
    /\ \A j \in DOMAIN jobs : jobs[j].ok /\ jobs[j].st = "Succeeded"

\* C32: a healthy run of the NetCDF entry point that has reached its
\* cataloging step eventually completes it and ends with the success outcome.
C32_HealthyRunCompletes ==
    (pipeline = "netcdf" /\ HealthyBeforeCatalog) ~> (cataloged /\ fexit = ExitSuccess)

\* the HTTPS S3 forms of a URL, and the canonical URI of the same object
IsHttpsS3(h) ==
    \E f \in {"path", "virtual", "regional"}, b \in HrefBuckets, k \in HrefKeys :
        h = HrefOf(f, b, k)

Canonical(h) ==
    LET w == CHOOSE w \in {"path", "virtual", "regional"} \X HrefBuckets \X HrefKeys :
                 h = HrefOf(w[1], w[2], w[3])
    IN HrefOf("s3uri", w[2], w[3])

\* C33: after process_catalog_items every asset href that was an HTTPS S3 URL
\* is the s3:// URI of the same object, every other href is unchanged, and no
\* href is None.
C33_HrefRewriting ==
    hpc = "returned"
    => \A i \in DOMAIN assets :
         /\ hrefs[i] # NoneHref
         /\ IF IsHttpsS3(assets[i]) THEN hrefs[i] = Canonical(assets[i])
            ELSE hrefs[i] = assets[i]

\* C34: input-type detection is total: for every accepted argument
\* combination, the granule id empty or the literal 'none' with no S3 input
\* included, detection yields a defined type or raises a validation error, so
\* no run goes past detection without a type and none ends with success
\* without a type.
C34_DetectionTotal ==
    /\ apc \in PastDetect => input_type # "None"
    /\ (apc = "done" /\ aexit = ExitSuccess) => input_type # "None"

\* C35: no status poll and no output resolution is issued for a job whose
\* submission was rejected: in every stage of every variant a handle without
\* id is neither in the awaited set nor passed to get_dps_output.
C35_RejectedNeverPolled ==
    \A j \in DOMAIN jobs :
        ~jobs[j].ok => (j \notin awaited /\ j \notin resolved)

\* catalog_job.main: get_catalog_from_parent_job, process_catalog_items and
\* ingest_catalog_to_stac come after wait_func() has returned
CatalogReadsParent == variant = "catalog" /\ ppc = "returned"

\* C36: the catalog job reads the parent's outputs and issues upserts only
\* after a refresh that showed the parent with status 'successful'; a run in
\* which no refresh showed it never gets that far.
C36_ReadsAfterSuccessful ==
    /\ CatalogReadsParent
         => (Lower(status) = "successful" /\ remote = status /\ polls >= 1
             /\ exc = "none" /\ exitCode = -1)
    /\ (variant = "catalog" /\ ppc = "raised") => exitCode # ExitSuccess

C36_Witness ==
    /\ CatalogReadsParent
    /\ polls >= 2
    /\ nsleeps >= 1

\* C37: the catalog job's wait for a non-terminal parent is abandoned once
\* the configured --max-wait-time has elapsed: with a --max-wait-time below
\* the built-in 172800 s, a refresh begun when that time has already passed
\* is the last one: it returns the parent or the wait fails, and no sleep
\* and no further refresh follow it.
C37_ConfiguredCeilingStopsWait ==
    [][(/\ variant = "catalog"
        /\ maxWaitTime < DecoratorMaxTime
        /\ polls' = polls + 1
        /\ now >= maxWaitTime)
          => ppc' \in {"returned", "raised"}]_vars

\* failures main can meet before the staging function checks the local path
BeforePathCheck ==
    {"RuntimeError", "UploadError", "FtpFileNotFoundError", "GranuleNotFoundError"}

\* C38: when the local download path of a staging script exists but is not a
\* directory, the run that gets as far as the check of the path ends with the
\* invalid-argument exit 6, not with the download-failed exit 3.
C38_NotADirectoryIsInvalidArgument ==
    (spc = "exited" /\ local_download_path = "file" /\ sraised \notin BeforePathCheck)
    => sexit = ExitInvalidArgument

====
